---- MODULE Spec2Model ----
(***************************************************************************)
(* Model of the hybrid demand forecaster                                   *)
(* (python-service/models/xgboost_optimal.py, class HybridBrain).          *)
(*                                                                         *)
(* Real numbers of the program (float64) are fixed-point integers in       *)
(* thousandths ("milli"): 1.0 is 1000, 0.15 is 150.  Products and          *)
(* quotients are rounded to the nearest thousandth.  Dates are day         *)
(* numbers counted from Monday 2024-01-01 (day 0); a formatted date is     *)
(* the record [year, month, day].  Python's None is -1 for a number and    *)
(* the empty function << >> for a dict.                                    *)
(***************************************************************************)
EXTENDS Integers, Sequences, FiniteSets, TLC

----------------------------------------------------------------------------
(* Fixed-point arithmetic *)

S == 10 * 100

Max(a, b) == IF a >= b THEN a ELSE b
Min(a, b) == IF a <= b THEN a ELSE b
Abs(a) == IF a >= 0 THEN a ELSE 0 - a

\* n / d rounded to the nearest integer (d > 0); \div is floor division
RoundDiv(n, d) == (2 * n + d) \div (2 * d)

MulF(a, b) == RoundDiv(a * b, S)
DivF(a, b) == RoundDiv(a * S, b)

\* Python 3 round(x) on a float x given in milli: ties go to the even integer
PyRound(x) ==
    LET q == x \div S
        r == x % S
    IN  IF 2 * r < S THEN q
        ELSE IF 2 * r > S THEN q + 1
        ELSE IF q % 2 = 0 THEN q ELSE q + 1

RECURSIVE SqrtSearch(_, _, _)
SqrtSearch(n, lo, hi) ==
    IF lo >= hi THEN lo
    ELSE LET mid == (lo + hi + 1) \div 2
         IN  IF mid * mid <= n THEN SqrtSearch(n, mid, hi)
             ELSE SqrtSearch(n, lo, mid - 1)

\* floor(sqrt(n)) for 0 <= n < 2^30
ISqrt(n) == SqrtSearch(n, 0, 32767)

RECURSIVE SumSeq(_)
SumSeq(s) == IF s = << >> THEN 0 ELSE Head(s) + SumSeq(Tail(s))

RECURSIVE SumSq(_)
SumSq(s) == IF s = << >> THEN 0 ELSE Head(s) * Head(s) + SumSq(Tail(s))

RECURSIVE MinSeq(_)
MinSeq(s) == IF Len(s) = 1 THEN s[1] ELSE Min(Head(s), MinSeq(Tail(s)))

\* dict.get(key, default)
Get(d, k, default) == IF k \in DOMAIN d THEN d[k] ELSE default

\* np.mean / Series.mean of integer quantities, in milli
MeanOf(s) == RoundDiv(SumSeq(s) * S, Len(s))

\* Series.std() (ddof = 1) of integer quantities, in milli; NaN (-1) below 2 rows
StdOf(s) ==
    LET n == Len(s)
        num == n * SumSq(s) - SumSeq(s) * SumSeq(s)
    IN  IF n < 2 THEN -1
        ELSE ISqrt(((num * S) \div (n * (n - 1))) * S)

----------------------------------------------------------------------------
(* Calendar: pandas Timestamp.dayofweek / .day / .month / strftime *)

IsLeap(y) == (y % 4 = 0 /\ y % 100 # 0) \/ y % 400 = 0

DaysInMonth(y, m) ==
    IF m = 2 THEN (IF IsLeap(y) THEN 29 ELSE 28)
    ELSE IF m \in {4, 6, 9, 11} THEN 30 ELSE 31

RECURSIVE CivilFrom(_, _, _)
CivilFrom(y, m, r) ==
    IF r < DaysInMonth(y, m) THEN [year |-> y, month |-> m, day |-> r + 1]
    ELSE CivilFrom(IF m = 12 THEN y + 1 ELSE y,
                   IF m = 12 THEN 1 ELSE m + 1,
                   r - DaysInMonth(y, m))

\* strftime('%Y-%m-%d') of day number d (day 0 is 2024-01-01)
Civil(d) == CivilFrom(2024, 1, d)

\* Monday = 0 ... Sunday = 6
DayOfWeek(d) == d % 7

weekend_dows == {5, 6}

\* lexicographic order of formatted dates
DateLess(a, b) ==
    \/ a.year < b.year
    \/ a.year = b.year /\ a.month < b.month
    \/ a.year = b.year /\ a.month = b.month /\ a.day < b.day

----------------------------------------------------------------------------
(* Feature Builder: HybridBrain._feature_engineering.                      *)
(* df is the cleaned frame: a sequence of rows [date, quantity], sorted by *)
(* date; rows are numbered from 1.                                         *)

Qty(df) == [i \in 1..Len(df) |-> df[i].quantity]

\* df['quantity'].mean()
global_mean(df) == MeanOf(Qty(df))

\* df['quantity'].expanding().mean() at row t: rows 1..t, row t included
exp_mean(df, t) == MeanOf(SubSeq(Qty(df), 1, t))

\* df['quantity'].shift(k), NaN filled with the expanding mean
lag(df, k, t) == IF t > k THEN df[t - k].quantity * S ELSE exp_mean(df, t)

\* the rows a trailing window of w sees at row t after shift(1)
Window(df, w, t) == SubSeq(Qty(df), Max(1, t - w), t - 1)

\* shift(1).rolling(w, min_periods=1).mean(), NaN filled with the global mean
roll_mean(df, w, t) ==
    IF t = 1 THEN global_mean(df) ELSE MeanOf(Window(df, w, t))

\* shift(1).rolling(w, min_periods=2).std(), NaN filled with 0
roll_std(df, w, t) ==
    IF Len(Window(df, w, t)) < 2 THEN 0 ELSE StdOf(Window(df, w, t))

weighted_lag(df, t) ==
    RoundDiv(150 * lag(df, 1, t) + 100 * lag(df, 2, t) + 100 * lag(df, 3, t)
             + 300 * lag(df, 7, t) + 200 * lag(df, 14, t) + 150 * lag(df, 21, t), S)

weighted_roll_mean(df, t) ==
    RoundDiv(150 * roll_mean(df, 3, t) + 250 * roll_mean(df, 7, t)
             + 300 * roll_mean(df, 14, t) + 300 * roll_mean(df, 21, t), S)

\* the quantities of the rows that fall on day-of-week dow
RECURSIVE DowRows(_, _)
DowRows(df, dow) ==
    IF df = << >> THEN << >>
    ELSE IF DayOfWeek(Head(df).date) = dow
         THEN <<Head(df).quantity>> \o DowRows(Tail(df), dow)
         ELSE DowRows(Tail(df), dow)

\* df.groupby(dayofweek)['quantity'].mean().to_dict()
dow_means(df) ==
    [dow \in {DayOfWeek(df[i].date) : i \in 1..Len(df)} |-> MeanOf(DowRows(df, dow))]

\* groupby('day_of_week')['quantity'].transform('mean') at row t
dow_avg(df, t) == dow_means(df)[DayOfWeek(df[t].date)]

\* _smoothed_target_encoding(df, 'day_of_week', 'quantity', smoothing) at row t
smoothed_target_encoding(df, t) ==
    LET n == Len(df)
        smoothing == Max(5 * S, RoundDiv(n * S, 50))
        gm0 == global_mean(df)
        gm == IF gm0 = 0 THEN S ELSE gm0
        rows == DowRows(df, DayOfWeek(df[t].date))
        smoothed == RoundDiv(SumSeq(rows) * S * S + smoothing * gm,
                             Len(rows) * S + smoothing)
    IN  Min(Max(DivF(smoothed, gm), 500), 2000)

\* df['quantity'].ewm(span, adjust=False).mean() at row t
RECURSIVE ema(_, _, _)
ema(df, span, t) ==
    IF t = 1 THEN df[1].quantity * S
    ELSE RoundDiv((span - 1) * ema(df, span, t - 1) + 2 * df[t].quantity * S, span + 1)

is_weekend(d) == IF DayOfWeek(d) \in weekend_dows THEN 1 ELSE 0

is_payday_period(d) == IF Civil(d).day >= 25 \/ Civil(d).day <= 5 THEN 1 ELSE 0

\* (1 - roll_std_7 / roll_mean_7.replace(0, 1)).fillna(0.5).clip(0, 1)
stability(df, w, t) ==
    LET m == roll_mean(df, w, t)
    IN  Min(Max(S - DivF(roll_std(df, w, t), IF m = 0 THEN S ELSE m), 0), S)

\* the columns of the feature matrix this model computes
ModelledCols ==
    {"is_weekend", "is_payday_period", "lag_1", "lag_7", "roll_mean_3",
     "roll_mean_7", "roll_mean_14", "roll_mean_21", "roll_mean_28",
     "weighted_roll_mean", "dow_smoothed", "weighted_lag", "ema_7", "ema_14",
     "stability_7", "dow_avg", "day_of_week"}

\* the value of column col at row t of _feature_engineering(df)
feature_engineering(df, col, t) ==
    CASE col = "is_weekend" -> is_weekend(df[t].date)
      [] col = "is_payday_period" -> is_payday_period(df[t].date)
      [] col = "day_of_week" -> DayOfWeek(df[t].date)
      [] col = "lag_1" -> lag(df, 1, t)
      [] col = "lag_7" -> lag(df, 7, t)
      [] col = "roll_mean_3" -> roll_mean(df, 3, t)
      [] col = "roll_mean_7" -> roll_mean(df, 7, t)
      [] col = "roll_mean_14" -> roll_mean(df, 14, t)
      [] col = "roll_mean_21" -> roll_mean(df, 21, t)
      [] col = "roll_mean_28" -> roll_mean(df, 28, t)
      [] col = "weighted_roll_mean" -> weighted_roll_mean(df, t)
      [] col = "dow_smoothed" -> smoothed_target_encoding(df, t)
      [] col = "weighted_lag" -> weighted_lag(df, t)
      [] col = "ema_7" -> ema(df, 7, t)
      [] col = "ema_14" -> ema(df, 14, t)
      [] col = "stability_7" -> stability(df, 7, t)
      [] col = "dow_avg" -> dow_avg(df, t)

minimal_features ==
    {"is_weekend", "is_payday_period", "lag_7", "roll_mean_7", "roll_mean_14",
     "weighted_roll_mean", "dow_smoothed"}

core_features ==
    minimal_features \cup {"weighted_lag", "roll_mean_21", "ema_14", "stability_7"}

medium_features ==
    core_features \cup {"day_of_week", "roll_std_7", "momentum_score", "ema_7", "ema_21"}

extended_features ==
    medium_features \cup {"lag_14", "lag_21", "roll_mean_28", "roll_median_7",
                          "roc_7", "roc_14", "trend_7", "stability_14"}

full_features ==
    extended_features \cup {"roll_std_14", "roll_cv_14", "diff_7", "trend_14",
                            "dow_sin", "dow_cos", "rel_to_roll14"}

all_features ==
    full_features \cup {"lag_28", "roll_mean_3", "ema_28", "ema_7_14_diff",
                        "roll_range_7", "roll_range_14", "week_of_year", "month"}

\* _get_feature_columns(n_samples)
get_feature_columns(n) ==
    IF n < 40 THEN minimal_features
    ELSE IF n < 60 THEN core_features
    ELSE IF n < 100 THEN medium_features
    ELSE IF n < 180 THEN extended_features
    ELSE IF n < 300 THEN full_features
    ELSE all_features


----------------------------------------------------------------------------
(* State *)

VARIABLES
    brain,      \* the HybridBrain instance that is trained, saved and asked to predict
    artifact,   \* the object pickled at the model path (absent: no file)
    output_artifact, \* the object pickled at training/models_output/xgboost_P1.pkl
    fresh,      \* the HybridBrain(product_id) that load_model fills
    ret,        \* what the last call returned or raised
    fe_df,      \* the frame handed to _feature_engineering
    fe_out,     \* the feature matrix it returned (<< >>: not computed)
    w_in,       \* the arguments of _compute_ensemble_weights
    w_out,      \* the weights it returned
    training_state,  \* _TRAINING_STATE: product id -> registered brain
    training_lock,   \* _TRAINING_LOCK: the thread that holds it ("" when free)
    pc,         \* where each thread is in the adapter call it runs
    local,      \* each thread's arguments and local variables
    model_cache,     \* the ModelCache instance: _cache in order, _hits, _misses
    cache_lock,      \* its _lock: the thread that holds it ("" when free)
    clock       \* time.time() in seconds

engine_vars == <<brain, artifact, output_artifact, fresh, ret>>
fe_vars == <<fe_df, fe_out>>
w_vars == <<w_in, w_out>>
adapter_vars == <<training_state, training_lock, pc, local>>
cache_vars == <<model_cache, cache_lock, clock>>
vars == <<brain, artifact, output_artifact, fresh, ret, fe_df, fe_out, w_in, w_out,
          training_state, training_lock, pc, local,
          model_cache, cache_lock, clock>>


----------------------------------------------------------------------------
(* HybridBrain: construction and training *)

NoError == [type |-> "", msg |-> ""]
ValueError(m) == [type |-> "ValueError", msg |-> m]

\* self.model is None; a regressor has its output by is_weekend (wd, we) and the
\* values of is_weekend on which model.predict raises
NoModel == [fitted |-> FALSE, wd |-> 0, we |-> 0, raises |-> {}]

\* HybridBrain.__init__
HybridBrain(pid) ==
    [product_id |-> pid, model |-> NoModel, std_error |-> 0,
     rules_metadata |-> << >>, physics_metrics |-> << >>,
     is_trained_ml |-> FALSE, last_row |-> << >>, last_date |-> -1,
     trained_at |-> -1, mae |-> 0, val_mae |-> 0, baseline_mae |-> -1,
     ensemble_weights |-> << >>, overfit_ratio |-> S, feature_cols |-> {},
     data_mean |-> 0, data_std |-> S, data_cv |-> 0, dow_patterns |-> << >>]

\* calc_m inside _calculate_momentum_metrics; has_lag is FALSE for a NaN lag
calc_m(current_ema, lag_val, has_lag) ==
    IF ~has_lag \/ lag_val = 0 THEN 0 ELSE DivF(current_ema - lag_val, lag_val)

momentum_status(combined) ==
    IF combined > 50 THEN "TRENDING_UP"
    ELSE IF combined > 20 THEN "GROWING"
    ELSE IF combined < -50 THEN "FALLING"
    ELSE IF combined < -20 THEN "DECLINING"
    ELSE "STABLE"

\* _calculate_momentum_metrics(df), spans 7 / 14 / 30, weights 0.5 / 0.3 / 0.2
calculate_momentum_metrics(df) ==
    LET n == Len(df)
        m(span) == calc_m(ema(df, span, n),
                          IF n > span THEN ema(df, span, n - span) ELSE 0,
                          n > span)
        combined == RoundDiv(500 * m(7) + 300 * m(14) + 200 * m(30), S)
    IN  [momentum7 |-> m(7), momentum14 |-> m(14), momentum30 |-> m(30),
         combined |-> combined, status |-> momentum_status(combined)]

\* the first branch chain of _compute_ensemble_weights; improvement in milli-percent
tier_weight_swapped(improvement) ==
    IF improvement >= 80 * S THEN 850
    ELSE IF improvement >= 70 * S THEN 800
    ELSE IF improvement >= 60 * S THEN 750
    ELSE IF improvement >= 50 * S THEN 650
    ELSE IF improvement >= 30 * S THEN 700
    ELSE 550

tier_weight(improvement) ==
    IF improvement >= 80 * S THEN 850
    ELSE IF improvement >= 70 * S THEN 800
    ELSE IF improvement >= 60 * S THEN 750
    ELSE IF improvement >= 50 * S THEN 700
    ELSE IF improvement >= 30 * S THEN 650
    ELSE 550

min_ml == 500
max_ml == 900

\* the returned dict of _compute_ensemble_weights, for the final ml_weight
weights_dict_fixed_rule(ml_weight) == [ml |-> ml_weight, rule |-> 250]

weights_dict(ml_weight) == [ml |-> ml_weight, rule |-> S - ml_weight]

\* _compute_ensemble_weights(improvement) with self.data_cv, self.overfit_ratio
compute_ensemble_weights(improvement, data_cv, overfit_ratio) ==
    LET w0 == tier_weight(improvement)
        w1 == IF data_cv > 600 THEN Max(min_ml, w0 - 100) ELSE w0
        w2 == IF overfit_ratio > 3 * S THEN Max(min_ml, w1 - 150)
              ELSE IF overfit_ratio > 2 * S THEN Max(min_ml, w1 - 100)
              ELSE w1
    IN  weights_dict(Min(Max(w2, min_ml), max_ml))

\* round(log1p(q) * 1000) for q = 0 .. 40
Log1pTable ==
    <<0, 693, 1099, 1386, 1609, 1792, 1946, 2079, 2197, 2303, 2398, 2485, 2565,
      2639, 2708, 2773, 2833, 2890, 2944, 2996, 3045, 3091, 3135, 3178, 3219,
      3258, 3296, 3332, 3367, 3401, 3434, 3466, 3497, 3526, 3555, 3584, 3611,
      3638, 3664, 3689, 3714>>

\* np.log1p of an integer quantity (the table's range)
log1p(q) == Log1pTable[Min(q, 40) + 1]

\* df[df['quantity'] > 0].dropna(subset=['quantity'])
Clean(sales_data) == SelectSeq(sales_data, LAMBDA r : r.quantity > 0)

cold_start_threshold == 14

\* the row _train_ml_model keeps as the seed of the autoregressive walk
ml_last_row(df, feature_cols) ==
    LET n == Len(df)
        keep == (feature_cols \cap ModelledCols)
                \cup {"roll_mean_7", "roll_mean_3", "lag_1", "lag_7", "dow_avg", "ema_7"}
    IN  [col \in keep |-> feature_engineering(df, col, n)]

\* the mode string _train_ml_model reports
ml_mode == "HYBRID_OPTIMIZED_v8_LOGTRANSFORM"

(* _train_ml_model(df).  The XGBoost fit is outside this program: fit is what *)
(* it produced, [leaf, mae, val_mae, baseline_mae, std_error]; the regressor  *)
(* is fit on log1p(quantity), so its leaves are log1p of training quantities. *)
train_ml_model(b, df, fit) ==
    LET n == Len(df)
        mean == global_mean(df)
        std0 == StdOf(Qty(df))
        std == IF std0 = 0 THEN S ELSE std0
        cv == IF mean > 0 THEN DivF(std, mean) ELSE 0
        feature_cols == get_feature_columns(n)
        lo == log1p(MinSeq(Qty(df)))
        hi == log1p(0 - MinSeq([i \in 1..n |-> 0 - df[i].quantity]))
        reg == [fitted |-> TRUE,
                wd |-> IF fit.leaf = "lo" THEN lo ELSE hi,
                we |-> hi,
                raises |-> {}]
        overfit == IF fit.mae > 0 THEN DivF(fit.val_mae, fit.mae) ELSE S
        improvement == IF fit.baseline_mae > 0
                       THEN (S - DivF(fit.val_mae, fit.baseline_mae)) * 100
                       ELSE 0
        b1 == [b EXCEPT !.data_mean = mean, !.data_std = std, !.data_cv = cv,
                        !.dow_patterns = dow_means(df),
                        !.model = reg, !.feature_cols = feature_cols,
                        !.is_trained_ml = TRUE,
                        !.mae = fit.mae, !.val_mae = fit.val_mae,
                        !.std_error = fit.std_error,
                        !.overfit_ratio = overfit,
                        !.baseline_mae = fit.baseline_mae,
                        !.trained_at = 1,
                        !.ensemble_weights =
                            compute_ensemble_weights(improvement, cv, overfit),
                        !.last_row = ml_last_row(df, feature_cols)]
    IN  [state |-> b1,
         raised |-> NoError,
         value |-> [success |-> TRUE, mode |-> ml_mode,
                    improvement_pct |-> improvement]]

\* _cold_start_mode(df)
cold_start_mode(b, df) ==
    LET n == Len(df)
        mean_qty == Max(global_mean(df), S)
        std_qty == IF n > 1 THEN StdOf(Qty(df)) ELSE MulF(mean_qty, 300)
        data_std == IF std_qty > 0 THEN std_qty ELSE S
        last_dt == df[n].date
        last_row == [roll_mean_7 |-> mean_qty,
                     roll_mean_3 |-> mean_qty,
                     lag_1 |-> Max(df[n].quantity * S, S),
                     lag_7 |-> IF n >= 7 THEN df[n - 6].quantity * S ELSE mean_qty,
                     dow_avg |-> mean_qty,
                     ema_7 |-> mean_qty,
                     day_of_week |-> DayOfWeek(last_dt),
                     is_weekend |-> is_weekend(last_dt)]
        b1 == [b EXCEPT !.is_trained_ml = FALSE,
                        !.data_mean = mean_qty,
                        !.data_std = data_std,
                        !.data_cv = IF mean_qty > 0 THEN DivF(data_std, mean_qty) ELSE 0,
                        !.std_error = IF std_qty > 0 THEN MulF(std_qty, 1500)
                                      ELSE MulF(mean_qty, 300),
                        !.dow_patterns = dow_means(df),
                        !.last_date = last_dt,
                        !.last_row = last_row,
                        !.baseline_mae = -1,
                        !.ensemble_weights = [ml |-> 0, rule |-> S]]
    IN  [state |-> b1,
         raised |-> NoError,
         value |-> [success |-> TRUE, mode |-> "COLD_START", improvement_pct |-> 0]]

NoValue == [success |-> FALSE, mode |-> "", improvement_pct |-> 0]

\* df.columns of pd.DataFrame(sales_data): the keys of the rows (none for an empty list)
columns(sales_data) == UNION {DOMAIN sales_data[i] : i \in 1..Len(sales_data)}

----------------------------------------------------------------------------
(* Burst detection: HybridBrain._detect_burst_physics *)

baseline_window_days == 30

\* df['quantity'].rolling(window=baseline_window, min_periods=1).mean() at row t
baseline(df, t) == MeanOf(SubSeq(Qty(df), Max(1, t - baseline_window_days + 1), t))

\* get_dow_factor(row) at row t
get_dow_factor(df, t) ==
    IF global_mean(df) = 0 THEN S
    ELSE DivF(dow_means(df)[DayOfWeek(df[t].date)], global_mean(df))

\* get_payday_factor(date_val): payday_ranges (1, 5), (25, 31), payday_multiplier 1.15
get_payday_factor(d) ==
    IF (1 <= Civil(d).day /\ Civil(d).day <= 5) \/ (25 <= Civil(d).day /\ Civil(d).day <= 31)
    THEN 1150 ELSE S

\* df['expected_full'] at row t
expected_full(df, t) ==
    MulF(MulF(baseline(df, t), get_dow_factor(df, t)), get_payday_factor(df[t].date))

\* residuals.std() (ddof = 1) in milli, computed on residuals rounded to
\* hundredths; NaN (-1) below 2 rows
residuals_std(df) ==
    LET n == Len(df)
        r == [t \in 1..n |-> RoundDiv(df[t].quantity * S - expected_full(df, t), 10)]
        num == n * SumSq(r) - SumSeq(r) * SumSeq(r)
    IN  IF n < 2 THEN -1 ELSE 10 * ISqrt(num \div (n * (n - 1)))

\* "if sigma == 0 or np.isnan(sigma): sigma = global_avg * 0.1 if global_avg > 0 else 1.0"
burst_sigma(df) ==
    IF residuals_std(df) <= 0
    THEN (IF global_mean(df) > 0 THEN RoundDiv(global_mean(df), 10) ELSE S)
    ELSE residuals_std(df)

\* burst_thresholds: critical 3.0, significant 2.0, mild 1.0
burst_level(burst_score) ==
    IF burst_score > 3000 THEN "CRITICAL"
    ELSE IF burst_score > 2000 THEN "SIGNIFICANT"
    ELSE IF burst_score > 1000 THEN "MILD"
    ELSE "NORMAL"

\* _detect_burst_physics(df): the record it returns
detect_burst_physics(df) ==
    LET n == Len(df)
        expected == expected_full(df, n)
        actual == df[n].quantity * S
        burst_score == DivF(actual - expected, burst_sigma(df))
    IN  [actual |-> actual,
         expected |-> expected,
         burst_score |-> burst_score,
         level |-> burst_level(burst_score),
         factors |-> [baseline |-> baseline(df, n), dow |-> get_dow_factor(df, n)]]

\* "'date' not in df.columns or 'quantity' not in df.columns"
lacks_columns(sales_data) ==
    "date" \notin columns(sales_data) \/ "quantity" \notin columns(sales_data)

\* HybridBrain.train(sales_data, product_id)
train(b, sales_data, product_id, fit) ==
    LET b0 == IF product_id # "" THEN [b EXCEPT !.product_id = product_id] ELSE b
        df == Clean(sales_data)
        momentum_res == calculate_momentum_metrics(df)
        burst_res == detect_burst_physics(df)
        b1 == [b0 EXCEPT !.last_date = df[Len(df)].date,
                         !.physics_metrics = [momentum |-> momentum_res,
                                              burst |-> burst_res],
                         !.rules_metadata = burst_res @@ momentum_res]
    IN  IF lacks_columns(sales_data)
        THEN [state |-> b0,
              raised |-> ValueError("Data must have 'date' and 'quantity' columns"),
              value |-> NoValue]
        ELSE IF df = << >>
        THEN [state |-> b0, raised |-> ValueError("No valid sales data"),
              value |-> NoValue]
        ELSE IF Len(df) >= cold_start_threshold
             THEN train_ml_model(b1, df, fit)
             ELSE cold_start_mode(b1, df)


----------------------------------------------------------------------------
(* Predictor: HybridBrain.predict_next_days *)

\* d[k] = v on a dict
SetKey(d, k, v) == [x \in (DOMAIN d) \cup {k} |-> IF x = k THEN v ELSE d[x]]

\* np.sin / np.cos of 2 * pi * k / 7 for k = 0 .. 6, in thousandths
dow_sin_table == <<0, 782, 975, 434, -434, -975, -782>>
dow_cos_table == <<1000, 623, -223, -901, -901, -223, 623>>

\* np.sin / np.cos of 2 * pi * m / 12 for m = 1 .. 12, in thousandths
month_sin_table == <<500, 866, 1000, 866, 500, 0, -500, -866, -1000, -866, -500, 0>>
month_cos_table == <<866, 500, 0, -500, -866, -1000, -866, -500, 0, 500, 866, 1000>>

\* next_date.isocalendar()[1] for the dates of 2024 and 2025 (ISO years of
\* 52 weeks; day 0 is the Monday of week 1 of 2024)
week_of_year(d) == ((d \div 7) % 52) + 1

\* _prepare_feature_row(next_date, current_row)
prepare_feature_row(b, next_date, current_row) ==
    LET safe_roll7 == Max(Get(current_row, "roll_mean_7", S), 100)
        safe_roll3 == Max(Get(current_row, "roll_mean_3", safe_roll7), 100)
        safe_lag1 == Max(Get(current_row, "lag_1", safe_roll7), 100)
        safe_lag7 == Max(Get(current_row, "lag_7", safe_roll7), 100)
        day_of_week == DayOfWeek(next_date)
        day_of_month == Civil(next_date).day
        dow_avg_v == Get(b.dow_patterns, day_of_week, safe_roll7)
    IN  [day_of_week |-> day_of_week,
         day_of_month |-> day_of_month,
         is_weekend |-> is_weekend(next_date),
         is_payday_period |-> is_payday_period(next_date),
         week_of_month |-> ((day_of_month - 1) \div 7) + 1,
         lag_1 |-> safe_lag1,
         lag_2 |-> Get(current_row, "lag_2", safe_lag1),
         lag_3 |-> Get(current_row, "lag_3", safe_lag1),
         lag_7 |-> safe_lag7,
         lag_14 |-> Get(current_row, "lag_14", safe_lag7),
         roll_mean_3 |-> safe_roll3,
         roll_mean_7 |-> safe_roll7,
         roll_mean_14 |-> Get(current_row, "roll_mean_14", safe_roll7),
         roll_std_3 |-> Get(current_row, "roll_std_3", 0),
         roll_std_7 |-> Get(current_row, "roll_std_7", 0),
         roll_std_14 |-> Get(current_row, "roll_std_14", 0),
         roll_min_7 |-> Get(current_row, "roll_min_7", MulF(safe_roll7, 800)),
         roll_max_7 |-> Get(current_row, "roll_max_7", MulF(safe_roll7, 1200)),
         dow_avg |-> dow_avg_v,
         roc_1 |-> Get(current_row, "roc_1", 0),
         roc_7 |-> Get(current_row, "roc_7", 0),
         diff_1 |-> Get(current_row, "diff_1", 0),
         diff_7 |-> Get(current_row, "diff_7", 0),
         ema_7 |-> Get(current_row, "ema_7", safe_roll7),
         ema_14 |-> Get(current_row, "ema_14", safe_roll7),
         dow_sin |-> dow_sin_table[day_of_week + 1],
         dow_cos |-> dow_cos_table[day_of_week + 1],
         month_sin |-> month_sin_table[Civil(next_date).month],
         month_cos |-> month_cos_table[Civil(next_date).month],
         week_of_year |-> week_of_year(next_date),
         month |-> Civil(next_date).month,
         rel_to_roll7 |-> DivF(safe_lag1, safe_roll7),
         rel_to_dow |-> IF dow_avg_v > 0 THEN DivF(safe_lag1, dow_avg_v) ELSE S]

\* the data-quality tier chosen from len(self.dow_patterns)
data_tier(b) ==
    LET data_days == Cardinality(DOMAIN b.dow_patterns)
    IN  IF data_days >= 60
        THEN [name |-> "HIGH", variation_scale |-> 1000,
              trend_sensitivity |-> 200, dow_lo |-> 800, dow_hi |-> 1250]
        ELSE IF data_days >= 30
        THEN [name |-> "MEDIUM_HIGH", variation_scale |-> 800,
              trend_sensitivity |-> 150, dow_lo |-> 850, dow_hi |-> 1200]
        ELSE IF data_days >= 14
        THEN [name |-> "MEDIUM", variation_scale |-> 600,
              trend_sensitivity |-> 100, dow_lo |-> 880, dow_hi |-> 1150]
        ELSE IF data_days >= 7
        THEN [name |-> "LOW_MEDIUM", variation_scale |-> 400,
              trend_sensitivity |-> 50, dow_lo |-> 920, dow_hi |-> 1100]
        ELSE [name |-> "LOW", variation_scale |-> 200,
              trend_sensitivity |-> 20, dow_lo |-> 950, dow_hi |-> 1050]

uses_ml(b) == b.model.fitted /\ b.is_trained_ml

\* ml_weight of predict_next_days
ml_weight_of(b) ==
    IF uses_ml(b)
    THEN (IF DOMAIN b.ensemble_weights = {} THEN 750 ELSE Get(b.ensemble_weights, "ml", 750))
    ELSE 0

confidence_of(b) ==
    IF uses_ml(b)
    THEN (IF data_tier(b).name \in {"HIGH", "MEDIUM_HIGH"} THEN "HIGH" ELSE "MEDIUM")
    ELSE (IF data_tier(b).name \in {"HIGH", "MEDIUM_HIGH", "MEDIUM"} THEN "MEDIUM" ELSE "LOW")

\* self.physics_metrics.get('momentum', {}).get('combined', 0.0)
momentum_of(b) ==
    IF "momentum" \in DOMAIN b.physics_metrics
    THEN b.physics_metrics.momentum.combined ELSE 0

\* Monday .. Sunday
dow_multipliers == <<970, 930, 940, 960, 1010, 1080, 1110>>

\* self.model.predict(X_pred)[0] on X_pred = {k: features.get(k, 0) for k in feature_cols}
model_predict(b, features) ==
    LET X_pred == [k \in b.feature_cols |-> Get(features, k, 0)]
    IN  IF Get(X_pred, "is_weekend", 0) = 1 THEN b.model.we ELSE b.model.wd

\* sum(self.dow_patterns.values()) / len(self.dow_patterns)
RECURSIVE SumValues(_, _)
SumValues(d, keys) ==
    IF keys = {} THEN 0
    ELSE LET k == CHOOSE x \in keys : TRUE
         IN  d[k] + SumValues(d, keys \ {k})

\* the blend of the learned and the default day-of-week factor
blend_dow(learned_factor, default_mult, vs, day_of_week) ==
    LET blend_toward_default == 700 - MulF(vs, 400)
    IN  IF day_of_week \in weekend_dows /\ learned_factor < default_mult
        THEN MulF(learned_factor, S - blend_toward_default)
             + MulF(default_mult, blend_toward_default)
        ELSE MulF(learned_factor, vs) + MulF(default_mult, S - vs)

\* the learned factor: dow_patterns[dow] / avg_dow clamped to dow_clamp
learned_factor_of(b, tier, day_of_week, avg_dow) ==
    IF avg_dow > 0
    THEN Max(tier.dow_lo, Min(tier.dow_hi, DivF(b.dow_patterns[day_of_week], avg_dow)))
    ELSE S

\* the day-of-week factor applied to the blended estimate
dow_factor_of(b, tier, day_of_week) ==
    IF day_of_week \in DOMAIN b.dow_patterns /\ tier.name # "LOW"
    THEN blend_dow(
             learned_factor_of(b, tier, day_of_week,
                 RoundDiv(SumValues(b.dow_patterns, DOMAIN b.dow_patterns),
                          Cardinality(DOMAIN b.dow_patterns))),
             dow_multipliers[day_of_week + 1], tier.variation_scale, day_of_week)
    ELSE dow_multipliers[day_of_week + 1]

\* the payday factor: (1.0 + payday_boost - 1.0) or (1.0 - payday_dip)
payday_factor(vs, day_of_month) ==
    LET payday_boost == MulF(1080, vs)
        payday_dip == MulF(50, vs)
    IN  IF day_of_month >= 25 \/ day_of_month <= 5 THEN S + payday_boost - S
        ELSE IF day_of_month >= 12 /\ day_of_month <= 18 THEN S - payday_dip
        ELSE S

\* the "natural variation" factor
variation_factor(vs, civil, day_of_week) ==
    LET date_seed == (civil.day * 3 + civil.month * 7 + day_of_week * 2) % 100
        max_variation == MulF(50, vs)
    IN  S + RoundDiv((date_seed - 50) * max_variation, 100)

\* max_daily_change = 0.15 + 0.15 * variation_scale
max_daily_change(vs) == 150 + MulF(150, vs)

\* the smoothing of the transition from the previous point prev (an integer)
smooth(final_pred, prev, vs) ==
    LET m == max_daily_change(vs)
    IN  IF prev > 0
        THEN IF final_pred > prev * (S + m) THEN MulF(prev * S, S + MulF(m, 800))
             ELSE IF final_pred < prev * (S - m) THEN MulF(prev * S, S - MulF(m, 800))
             ELSE final_pred
        ELSE final_pred

\* int(max(1, round(final_pred)))
integer_output_no_floor(final_pred) == PyRound(final_pred)

integer_output(final_pred) == Max(1, PyRound(final_pred))

\* int(max(0, round(final_pred - uncertainty)))
lower_bound_of(final_pred, uncertainty) == Max(0, PyRound(final_pred * S - uncertainty))

\* int(round(final_pred + uncertainty))
upper_bound_of(final_pred, uncertainty) == PyRound(final_pred * S + uncertainty)

\* pred_date = base_date + pd.Timedelta(days=i + 1), i counted from 0
pred_date_off_by_one(base_date, i) == base_date + i

pred_date_of(base_date, i) == base_date + i + 1

\* the estimate of step i before it is rounded, from the blended estimate on
adjust(blended, tier, momentum, dow_factor, civil, day_of_week, i, days, predictions) ==
    LET vs == tier.variation_scale
        with_dow == MulF(blended, dow_factor)
        with_payday == MulF(with_dow, payday_factor(vs, civil.day))
        with_variation == MulF(with_payday, variation_factor(vs, civil, day_of_week))
        with_trend ==
            IF Abs(momentum) > 30
            THEN MulF(with_variation,
                      S + RoundDiv(momentum * tier.trend_sensitivity * (i + 1), S * days))
            ELSE with_variation
    IN  IF predictions # << >>
        THEN smooth(with_trend, predictions[Len(predictions)].predicted_quantity, vs)
        ELSE with_trend

\* model.predict(X_pred) raises
model_raises(b, features) ==
    LET X_pred == [k \in b.feature_cols |-> Get(features, k, 0)]
    IN  Get(X_pred, "is_weekend", 0) \in b.model.raises

\* "except Exception: ml_pred = features['roll_mean_7']"
ml_fallback_zero(features) == 0

ml_fallback(features) == features.roll_mean_7

\* ml_pred of step i
ml_pred_of(b, features) ==
    IF uses_ml(b)
    THEN (IF model_raises(b, features) THEN ml_fallback(features)
          ELSE Max(0, model_predict(b, features)))
    ELSE features.roll_mean_7

\* rule_pred of step i
rule_pred_of(b, features, momentum, day_of_week) ==
    LET trend_factor == S + MulF(momentum, 100)
        dow_avg_v == Get(b.dow_patterns, day_of_week, features.roll_mean_7)
        rule_base == RoundDiv(400 * features.lag_1 + 350 * features.roll_mean_7
                              + 250 * dow_avg_v, S)
    IN  Max(0, MulF(rule_base, trend_factor))

\* final_pred = ml_weight * ml_pred + (1 - ml_weight) * rule_pred
ensemble(ml_weight, ml_pred, rule_pred) ==
    MulF(ml_weight, ml_pred) + MulF(S - ml_weight, rule_pred)

\* the ML / rule blend of step i
blend(b, features, momentum, day_of_week) ==
    ensemble(ml_weight_of(b), ml_pred_of(b, features),
             rule_pred_of(b, features, momentum, day_of_week))

\* the estimate of step i before it is rounded
step_estimate(b, tier, features, pred_date, i, days, predictions) ==
    adjust(blend(b, features, momentum_of(b), DayOfWeek(pred_date)),
           tier, momentum_of(b), dow_factor_of(b, tier, DayOfWeek(pred_date)),
           Civil(pred_date), DayOfWeek(pred_date), i, days, predictions)

\* the last k elements of s (all of s when it is shorter)
LastK(s, k) == SubSeq(s, Max(1, Len(s) - k + 1), Len(s))

\* the "Update for next iteration" block; preds are the integer predictions so far
update_row(current_row, features, preds, i) ==
    LET final_pred == preds[Len(preds)]
        r1 == SetKey(current_row, "lag_3", Get(current_row, "lag_2", features.lag_1))
        r2 == SetKey(r1, "lag_2", Get(r1, "lag_1", features.lag_1))
        r3 == SetKey(r2, "lag_1", final_pred * S)
        r4 == IF i >= 6 THEN SetKey(r3, "lag_7", preds[i - 6 + 1] * S) ELSE r3
        recent_preds == LastK(preds, 7)
        r5 == SetKey(r4, "roll_mean_7", MeanOf(recent_preds))
    IN  SetKey(r5, "roll_mean_3",
               IF Len(recent_preds) >= 3 THEN MeanOf(LastK(recent_preds, 3))
               ELSE final_pred * S)

\* the prediction dict appended at a step
make_point(b, pred_date, final_pred, uncertainty) ==
    [date |-> Civil(pred_date),
     predicted_quantity |-> final_pred,
     lower_bound |-> lower_bound_of(final_pred, uncertainty),
     upper_bound |-> upper_bound_of(final_pred, uncertainty),
     confidence |-> confidence_of(b),
     day_of_week |-> DayOfWeek(pred_date),
     is_weekend |-> DayOfWeek(pred_date) \in weekend_dows]

\* [p['predicted_quantity'] for p in predictions]
Quantities_of(predictions) ==
    [k \in 1..Len(predictions) |-> predictions[k].predicted_quantity]

(* The loop "for i in range(days)" from step i on.  walk_features and     *)
(* walk_final carry the step's feature row and its integer prediction.    *)
RECURSIVE walk(_, _, _, _, _, _, _)
RECURSIVE walk_features(_, _, _, _, _, _, _, _)
RECURSIVE walk_final(_, _, _, _, _, _, _, _, _)
walk_final(b, tier, base_date, days, i, current_row, predictions, features, final_pred) ==
    walk(b, tier, base_date, days, i + 1,
         update_row(current_row, features,
                    Append(Quantities_of(predictions), final_pred), i),
         Append(predictions,
                make_point(b, pred_date_of(base_date, i), final_pred,
                           MulF(1640, b.std_error))))

walk_features(b, tier, base_date, days, i, current_row, predictions, features) ==
    walk_final(b, tier, base_date, days, i, current_row, predictions, features,
               integer_output(step_estimate(b, tier, features,
                                            pred_date_of(base_date, i), i, days,
                                            predictions)))

walk(b, tier, base_date, days, i, current_row, predictions) ==
    IF i >= days THEN [predictions |-> predictions, current_row |-> current_row]
    ELSE walk_features(b, tier, base_date, days, i, current_row, predictions,
                       prepare_feature_row(b, pred_date_of(base_date, i), current_row))

\* "if days < 1 or days > 30"
days_out_of_range_zero_ok(days) == days < 0 \/ days > 30

days_out_of_range(days) == days < 1 \/ days > 30

\* predict_next_days(days); now is pd.Timestamp.now(), read when no date is stored
predict_next_days(b, days, now) ==
    IF days_out_of_range(days)
    THEN [raised |-> ValueError("Days must be between 1 and 30"), value |-> << >>]
    ELSE IF DOMAIN b.last_row = {}
    THEN [raised |-> ValueError("Model not trained"), value |-> << >>]
    ELSE [raised |-> NoError,
          value |-> walk(b, data_tier(b),
                         IF b.last_date # -1 THEN b.last_date ELSE now,
                         days, 0, b.last_row, << >>).predictions]

\* "current_row = self.last_row.copy()": self.last_row after the loop wrote
\* the row current_row; without the copy both names are one dict
last_row_after_aliased(last_row, current_row) == current_row

last_row_after(last_row, current_row) == last_row

\* the instance after predict_next_days(days) returned or raised
predict_state(b, days, now) ==
    IF days_out_of_range(days) \/ DOMAIN b.last_row = {} THEN b
    ELSE [b EXCEPT !.last_row =
            last_row_after(b.last_row,
                           walk(b, data_tier(b),
                                IF b.last_date # -1 THEN b.last_date ELSE now,
                                days, 0, b.last_row, << >>).current_row)]


----------------------------------------------------------------------------
(* Model Persistence: HybridBrain.save_model / HybridBrain.load_model *)

\* what a file at a model path can hold: a pickled HybridBrain, a pickle of some
\* other object, or bytes joblib.load raises on
ArtifactKinds == {"HybridBrain", "other", "corrupt"}

NoArtifact == [exists |-> FALSE, path |-> "", kind |-> "HybridBrain",
               obj |-> HybridBrain("")]

\* os.path.dirname(model_path) of the modelled paths
dirname(model_path) == IF model_path = "xgboost_P1.pkl" THEN "" ELSE "models"

(* save_model(product_id, model_path): os.makedirs(dirname) raises on an    *)
(* empty dirname, and the except branch returns False with nothing written; *)
(* otherwise joblib.dump(self, model_path) pickles the whole instance.      *)
save_model(b, art, model_path) ==
    IF dirname(model_path) = ""
    THEN [artifact |-> art, value |-> FALSE]
    ELSE [artifact |-> [exists |-> TRUE, path |-> model_path,
                        kind |-> "HybridBrain", obj |-> b],
          value |-> TRUE]

\* the attribute list load_model copies, without dow_patterns
load_attrs_no_dow ==
    {"product_id", "model", "physics_metrics", "std_error", "mae", "val_mae",
     "last_row", "is_trained_ml", "baseline_mae", "ensemble_weights",
     "last_date", "feature_cols", "data_mean", "data_std", "data_cv",
     "train_r2", "val_r2", "val_rmse", "val_mape", "val_accuracy"}

\* the attribute list load_model copies
load_attrs ==
    {"product_id", "model", "physics_metrics", "std_error", "mae", "val_mae",
     "last_row", "is_trained_ml", "baseline_mae", "ensemble_weights",
     "last_date", "feature_cols", "data_mean", "data_std", "data_cv",
     "dow_patterns", "train_r2", "val_r2", "val_rmse", "val_mape",
     "val_accuracy"}

\* "return self.model is not None or not self.is_trained_ml"
load_result(b) == b.model.fitted \/ ~b.is_trained_ml

(* load_model(product_id, model_path) on the instance b: False when the    *)
(* path does not exist or joblib.load raises; the attributes are copied    *)
(* only from a HybridBrain; the result is computed from b in every other   *)
(* case.                                                                   *)
load_model(b, art, product_id, model_path) ==
    IF ~(art.exists /\ art.path = model_path)
    THEN [state |-> b, value |-> FALSE]
    ELSE IF art.kind = "corrupt"
    THEN [state |-> b, value |-> FALSE]
    ELSE IF art.kind # "HybridBrain"
    THEN [state |-> b, value |-> load_result(b)]
    ELSE LET copied == [f \in DOMAIN b |->
                           IF f \in load_attrs THEN art.obj[f] ELSE b[f]]
             b1 == [copied EXCEPT !.product_id =
                       IF copied.product_id # "" THEN copied.product_id
                       ELSE product_id]
         IN  [state |-> b1, value |-> load_result(b1)]

----------------------------------------------------------------------------
(* Adapter functions: the module-level train, save_model and load_model on *)
(* the registry _TRAINING_STATE.                                           *)

ProductIds == {"P1", "P2"}

\* _TRAINING_STATE.get(product_id) is None
NoEntry == [present |-> FALSE, brain |-> HybridBrain("")]

Entry(b) == [present |-> TRUE, brain |-> b]

\* "_TRAINING_STATE[product_id] = {...}" as a rebinding of the whole dict
registry_put_rebind(reg, product_id, entry) ==
    [p \in ProductIds |-> IF p = product_id THEN entry ELSE NoEntry]

\* "_TRAINING_STATE[product_id] = {"brain": brain, "metrics": ...}"
registry_put(reg, product_id, entry) == [reg EXCEPT ![product_id] = entry]

\* Lock.acquire of "with lock:" that never waits
lock_free_always(lock) == TRUE

\* Lock.acquire of "with lock:" goes on when no thread holds the lock
lock_free(lock) == lock = ""

\* train(sales_data, product_id) after brain.train(...) ended as r: the
\* registry is written only when train did not raise
adapter_train_end(reg, product_id, r) ==
    IF r.raised # NoError
    THEN [registry |-> reg, raised |-> r.raised, value |-> r.value]
    ELSE [registry |-> registry_put(reg, product_id, Entry(r.state)),
          raised |-> NoError, value |-> r.value]

\* train(sales_data, product_id)
adapter_train(reg, sales_data, product_id, fit) ==
    adapter_train_end(reg, product_id,
                      train(HybridBrain(product_id), sales_data, product_id, fit))

\* getattr(existing, 'val_mae', None) of the object at the path; -1 is None
existing_mae_of(art) == IF art.kind = "HybridBrain" THEN art.obj.val_mae ELSE -1

\* "existing_mae and brain.val_mae > existing_mae * 1.1"
refuses_overwrite(existing_mae, val_mae) ==
    existing_mae # -1 /\ existing_mae # 0 /\ val_mae * 10 > existing_mae * 11

FileNotFoundError == [type |-> "FileNotFoundError", msg |-> "os.makedirs('')"]

\* save_model(product_id, output_path) after "state = _TRAINING_STATE.get(product_id)"
adapter_save_state(state, art, product_id, output_path) ==
    LET readable == art.exists /\ art.path = output_path /\ art.kind # "corrupt"
        saved == save_model(state.brain, art, output_path)
    IN  IF ~state.present
        THEN [artifact |-> art, raised |-> NoError, value |-> FALSE]
        ELSE IF readable /\ refuses_overwrite(existing_mae_of(art), state.brain.val_mae)
        THEN [artifact |-> art, raised |-> NoError, value |-> FALSE]
        ELSE IF dirname(output_path) = ""
        THEN [artifact |-> art, raised |-> FileNotFoundError, value |-> FALSE]
        ELSE [artifact |-> saved.artifact, raised |-> NoError, value |-> saved.value]

\* save_model(product_id, output_path)
adapter_save_model(reg, art, product_id, output_path) ==
    adapter_save_state(reg[product_id], art, product_id, output_path)

\* load_model(product_id, model_path)
adapter_load_model(reg, art, product_id, model_path) ==
    LET r == load_model(HybridBrain(product_id), art, product_id, model_path)
    IN  IF ~r.value
        THEN [registry |-> reg, value |-> FALSE]
        ELSE [registry |-> registry_put(reg, product_id, Entry(r.state)),
              value |-> TRUE]

----------------------------------------------------------------------------
(* utils/cache.py: ModelCache.  _cache is an OrderedDict of                 *)
(* key -> (value, timestamp): a sequence of entries, oldest first.          *)

\* the capacity of the modelled instance, ModelCache(max_size=2)
max_size == 2

\* ttl_seconds of the instance
ttl_seconds == 3600

\* the value get returns on a miss
None == ""

ModelCache == [entries |-> << >>, hits |-> 0, misses |-> 0]

\* the position of key in _cache, 0 when "key not in self._cache"
IndexOfKey(entries, key) ==
    IF \E i \in 1..Len(entries) : entries[i].key = key
    THEN CHOOSE i \in 1..Len(entries) : entries[i].key = key
    ELSE 0

\* "del self._cache[key]" at position i
DelAt(entries, i) ==
    [j \in 1..(Len(entries) - 1) |-> IF j < i THEN entries[j] ELSE entries[j + 1]]

\* "time.time() - timestamp > self._ttl"
expired(timestamp, now) == now - timestamp > ttl_seconds

\* the body of get(key) under the lock
cache_get(c, key, now) ==
    LET i == IndexOfKey(c.entries, key)
    IN  IF i = 0
        THEN [cache |-> [c EXCEPT !.misses = @ + 1], value |-> None]
        ELSE IF expired(c.entries[i].timestamp, now)
        THEN [cache |-> [c EXCEPT !.entries = DelAt(@, i), !.misses = @ + 1],
              value |-> None]
        ELSE [cache |-> [c EXCEPT !.entries = Append(DelAt(@, i), c.entries[i]),
                                  !.hits = @ + 1],
              value |-> c.entries[i].value]

\* "while len(self._cache) >= self._max_size"
at_capacity(c) == Len(c.entries) >= max_size

\* "oldest_key = next(iter(self._cache)); del self._cache[oldest_key]"
cache_evict(c) == [c EXCEPT !.entries = Tail(@)]

\* "self._cache[key] = (value, time.time())": a key already there keeps its place
cache_insert(c, key, value, now) ==
    LET i == IndexOfKey(c.entries, key)
        e == [key |-> key, value |-> value, timestamp |-> now]
    IN  IF i = 0 THEN [c EXCEPT !.entries = Append(@, e)]
        ELSE [c EXCEPT !.entries[i] = e]

\* the body of set(key, value) under the lock
RECURSIVE cache_set(_, _, _, _)
cache_set(c, key, value, now) ==
    IF at_capacity(c) THEN cache_set(cache_evict(c), key, value, now)
    ELSE cache_insert(c, key, value, now)

\* the body of remove(key) under the lock
cache_remove(c, key) ==
    LET i == IndexOfKey(c.entries, key)
    IN  IF i # 0 THEN [cache |-> [c EXCEPT !.entries = DelAt(@, i)], value |-> TRUE]
        ELSE [cache |-> c, value |-> FALSE]

\* the body of clear() under the lock
cache_clear(c) == [entries |-> << >>, hits |-> 0, misses |-> 0]

----------------------------------------------------------------------------
(* Inputs *)

\* the longest sales history handed to train
MaxLen == 15

\* the longest frame handed to _feature_engineering on its own
MaxRows == 15

StartDays == {0, 10}
Lens == {0, 1, 7, 13, 14, MaxLen}
Bases == {0, 1, 3, 20}
Ups == {0, 5}
Spikes == {0, 15}
DaysInputs == {0, 1, 7, 30, 31}
Paths == {"models/xgboost_P1.pkl", "xgboost_P1.pkl"}
Quantities == {2, 9}

\* n daily rows from day start: base, plus up on a weekend, plus spike on the last day
History(start, n, base, up, spike) ==
    [i \in 1..n |->
        [date |-> start + i - 1,
         quantity |-> base
                      + (IF DayOfWeek(start + i - 1) \in weekend_dows THEN up ELSE 0)
                      + (IF i = n THEN spike ELSE 0)]]

\* what an XGBoost fit can leave behind (errors in milli units of quantity)
FitOutcomes ==
    {[leaf |-> "lo", mae |-> 1000, val_mae |-> 1200, baseline_mae |-> 8000, std_error |-> 1500],
     [leaf |-> "hi", mae |-> 500, val_mae |-> 2000, baseline_mae |-> 1500, std_error |-> 0],
     [leaf |-> "lo", mae |-> 0, val_mae |-> 0, baseline_mae |-> 0, std_error |-> 0],
     [leaf |-> "hi", mae |-> 1000, val_mae |-> 2500, baseline_mae |-> 5000, std_error |-> 3000]}

\* pd.Timestamp.now() as a day number
Now == 400 + 0

----------------------------------------------------------------------------
(* The engine: one HybridBrain through train, predict, save and load.  As  *)
(* in the adapter (train builds HybridBrain(product_id) for every call),   *)
(* an instance is trained once.                                            *)

InitEngine ==
    /\ brain = HybridBrain("P1")
    /\ artifact = NoArtifact
    /\ output_artifact = NoArtifact
    /\ fresh = HybridBrain("P1")
    /\ ret = [op |-> "init", arg |-> 0, raised |-> NoError, value |-> FALSE]

InitFe ==
    /\ fe_df = << >>
    /\ fe_out = << >>

InitW ==
    /\ w_in = [improvement |-> 0, data_cv |-> 0, overfit_ratio |-> S]
    /\ w_out = << >>

Threads == {"t1", "t2"}

\* a thread that has run no call
NoLocal == [op |-> "", product_id |-> "", key |-> "", history |-> 0,
            brain |-> HybridBrain(""), raised |-> NoError, value |-> FALSE]

InitAdapter ==
    /\ training_state = [p \in ProductIds |-> NoEntry]
    /\ training_lock = ""
    /\ pc = [t \in Threads |-> "idle"]
    /\ local = [t \in Threads |-> NoLocal]

InitCache ==
    /\ model_cache = ModelCache
    /\ cache_lock = ""
    /\ clock = 0

Init == InitEngine /\ InitFe /\ InitW /\ InitAdapter /\ InitCache

\* the rows of sales_data without the key col
DropColumn(sales_data, col) ==
    [i \in 1..Len(sales_data) |->
        [k \in (DOMAIN sales_data[i]) \ {col} |-> sales_data[i][k]]]

\* the number of rows train keeps (none when it stops at the column check)
clean_rows(sales_data) ==
    IF lacks_columns(sales_data) THEN 0 ELSE Len(Clean(sales_data))

TrainWith(sales_data, fit) ==
    LET r == train(brain, sales_data, "P1", fit)
    IN  /\ brain' = r.state
        /\ ret' = [op |-> "train", arg |-> clean_rows(sales_data),
                   raised |-> r.raised, value |-> r.value]

Train ==
    /\ DOMAIN brain.last_row = {}
    /\ \/ \E start \in StartDays, n \in Lens, base \in Bases, up \in Ups,
             spike \in Spikes, fit \in FitOutcomes :
             TrainWith(History(start, n, base, up, spike), fit)
       \/ \E n \in {1, cold_start_threshold}, col \in {"date", "quantity"},
             fit \in FitOutcomes :
             TrainWith(DropColumn(History(0, n, 3, 0, 0), col), fit)
    /\ UNCHANGED <<artifact, output_artifact, fresh, fe_vars, w_vars, adapter_vars, cache_vars>>

Predict ==
    /\ \E days \in DaysInputs :
          LET r == predict_next_days(brain, days, Now)
          IN  ret' = [op |-> "predict", arg |-> days, raised |-> r.raised,
                      value |-> r.value]
    /\ UNCHANGED <<brain, artifact, output_artifact, fresh, fe_vars, w_vars, adapter_vars, cache_vars>>

Next == Train \/ Predict

Spec == Init /\ [][Next]_vars

----------------------------------------------------------------------------
(* Persistence: the trained instance is saved, a fresh instance loads the  *)
(* artifact and forecasts 7 days.                                          *)

SaveModel ==
    /\ \E path \in Paths :
          LET r == save_model(brain, artifact, path)
          IN  /\ artifact' = r.artifact
              /\ ret' = [op |-> "save_model", arg |-> path, raised |-> NoError,
                         value |-> r.value]
    /\ UNCHANGED <<brain, fresh, output_artifact, fe_vars, w_vars, adapter_vars, cache_vars>>

LoadModel ==
    /\ \E path \in Paths :
          LET r == load_model(HybridBrain("P1"), artifact, "P1", path)
          IN  /\ fresh' = r.state
              /\ ret' = [op |-> "load_model", arg |-> path, raised |-> NoError,
                         value |-> r.value]
    /\ UNCHANGED <<brain, artifact, output_artifact, fe_vars, w_vars, adapter_vars, cache_vars>>

PredictLoaded ==
    /\ ret.op = "load_model"
    /\ LET r == predict_next_days(fresh, 7, Now)
       IN  ret' = [op |-> "predict_loaded", arg |-> ret.arg, raised |-> r.raised,
                   value |-> r.value]
    /\ UNCHANGED <<brain, artifact, output_artifact, fresh, fe_vars, w_vars, adapter_vars, cache_vars>>

NextPersist == Train \/ SaveModel \/ LoadModel \/ PredictLoaded

SpecPersist == Init /\ [][NextPersist]_vars

----------------------------------------------------------------------------
(* _feature_engineering on its own. _train_ml_model is its only caller and *)
(* train reaches it with at least 14 cleaned rows: a frame grows from a     *)
(* patterned start of 12 daily rows by appended rows to at most MaxRows.    *)

FeAppend ==
    /\ Len(fe_df) < MaxRows
    /\ \/ /\ fe_df = << >>
          /\ \E start \in StartDays, base \in Bases \ {0}, up \in Ups, spike \in Spikes :
                fe_df' = History(start, cold_start_threshold - 2, base, up, spike)
       \/ /\ fe_df # << >>
          /\ \E q \in Quantities :
                fe_df' = Append(fe_df, [date |-> fe_df[Len(fe_df)].date + 1,
                                        quantity |-> q])
    /\ fe_out' = << >>
    /\ UNCHANGED <<engine_vars, w_vars, adapter_vars, cache_vars>>

\* train_df = self._feature_engineering(df), the columns _get_feature_columns selects
FeCompute ==
    /\ Len(fe_df) >= cold_start_threshold
    /\ fe_out' = [t \in 1..Len(fe_df) |->
                    [col \in get_feature_columns(Len(fe_df)) |->
                        feature_engineering(fe_df, col, t)]]
    /\ UNCHANGED <<fe_df, engine_vars, w_vars, adapter_vars, cache_vars>>

NextFe == FeAppend \/ FeCompute

SpecFeat == Init /\ [][NextFe]_vars

----------------------------------------------------------------------------
(* _compute_ensemble_weights on its own *)

Improvements == {k * 5 * S : k \in -10..20}
Cvs == {0, 300, 600, 601, 1000}
OverfitRatios == {500, 1000, 2000, 2001, 3000, 3001, 5000}

ComputeWeights ==
    /\ \E improvement \in Improvements, cv \in Cvs, overfit \in OverfitRatios :
          /\ w_in' = [improvement |-> improvement, data_cv |-> cv,
                      overfit_ratio |-> overfit]
          /\ w_out' = compute_ensemble_weights(improvement, cv, overfit)
    /\ UNCHANGED <<engine_vars, fe_vars, adapter_vars, cache_vars>>

SpecWeights == Init /\ [][ComputeWeights]_vars

----------------------------------------------------------------------------
(* predict_next_days on an ML-trained state whose regressor raises: the     *)
(* call fails at the steps whose is_weekend feature is in `raises`.         *)

FaultyDays == {1, 7}

PredictFaulty ==
    /\ uses_ml(brain)
    /\ \E days \in FaultyDays, raises \in (SUBSET {0, 1}) \ {{}} :
          LET r == predict_next_days([brain EXCEPT !.model.raises = raises], days, Now)
          IN  ret' = [op |-> "predict_faulty",
                     arg |-> [days |-> days, raises |-> raises],
                     raised |-> r.raised, value |-> r.value]
    /\ UNCHANGED <<brain, artifact, output_artifact, fresh, fe_vars, w_vars, adapter_vars, cache_vars>>

NextFault == Train \/ PredictFaulty

SpecFault == Init /\ [][NextFault]_vars

----------------------------------------------------------------------------
(* Repeated forecasts on one trained instance: each call leaves the         *)
(* instance as predict_next_days leaves it, and the next call starts there. *)

RepeatDays == {0, 1, 7}

MaxCalls == 2

PredictRepeat ==
    /\ DOMAIN brain.last_row # {}
    /\ \E days \in RepeatDays :
          LET r == predict_next_days(brain, days, Now)
              call == IF ret.op = "predict_repeat" THEN ret.arg.call + 1 ELSE 1
          IN  /\ call <= MaxCalls
              /\ brain' = predict_state(brain, days, Now)
              /\ ret' = [op |-> "predict_repeat",
                         arg |-> [days |-> days, call |-> call],
                         raised |-> r.raised, value |-> r.value]
    /\ UNCHANGED <<artifact, output_artifact, fresh, fe_vars, w_vars, adapter_vars, cache_vars>>

NextRepeat == Train \/ PredictRepeat

SpecRepeat == Init /\ [][NextRepeat]_vars

----------------------------------------------------------------------------
(* The adapter called by one caller at a time: train, save_model and        *)
(* load_model on the registry and on the file at a model path.  Files that  *)
(* are not pickled HybridBrains come from outside the service.  One product *)
(* id is enough here: the calls of one caller touch one registry entry.     *)

\* histories handed to the adapter: none, no positive quantity, cold start, ML
AdapterHistories ==
    <<<< >>,
      History(0, 7, 0, 0, 0),
      History(0, 7, 3, 0, 0),
      History(0, cold_start_threshold, 3, 5, 0),
      DropColumn(History(0, 7, 3, 0, 0), "quantity"),
      DropColumn(History(0, 7, 3, 0, 0), "date")>>

\* two fits, the second with more than 1.1 times the validation error of the first
AdapterFits == {fit \in FitOutcomes : fit.val_mae \in {1200, 2500}}

\* the caller's record of a train call that ended as r
AdapterTrainReturn(product_id, k, entry, r) ==
    [op |-> "adapter_train",
     arg |-> [product_id |-> product_id, history |-> k, entry |-> entry],
     raised |-> r.raised, value |-> r.value]

\* the registry and the caller's record after a train call that ended as r
AdapterTrainStep(product_id, k, r) ==
    /\ training_state' = r.registry
    /\ ret' = AdapterTrainReturn(product_id, k, training_state[product_id], r)

AdapterTrain ==
    /\ \E product_id \in {"P1"}, k \in DOMAIN AdapterHistories,
          fit \in AdapterFits :
          AdapterTrainStep(product_id, k,
              adapter_train(training_state, AdapterHistories[k], product_id, fit))
    /\ UNCHANGED <<brain, artifact, output_artifact, fresh, fe_vars, w_vars, training_lock, pc, local, cache_vars>>

AdapterSaveModel ==
    /\ \E product_id \in {"P1"}, output_path \in Paths :
          LET r == adapter_save_model(training_state, artifact, product_id, output_path)
          IN  /\ artifact' = r.artifact
              /\ ret' = [op |-> "adapter_save_model",
                         arg |-> [product_id |-> product_id, path |-> output_path,
                                  artifact |-> artifact],
                         raised |-> r.raised, value |-> r.value]
    /\ UNCHANGED <<brain, fresh, output_artifact, fe_vars, w_vars, adapter_vars, cache_vars>>

AdapterLoadModel ==
    /\ \E product_id \in {"P1"}, model_path \in Paths :
          LET r == adapter_load_model(training_state, artifact, product_id, model_path)
          IN  /\ training_state' = r.registry
              /\ ret' = [op |-> "adapter_load_model",
                         arg |-> [product_id |-> product_id, path |-> model_path,
                                  entry |-> training_state[product_id]],
                         raised |-> NoError, value |-> r.value]
    /\ UNCHANGED <<brain, artifact, output_artifact, fresh, fe_vars, w_vars, training_lock, pc, local, cache_vars>>

\* a file written at a model path by something other than save_model
PlaceFile ==
    /\ \E path \in Paths, kind \in ArtifactKinds \ {"HybridBrain"} :
          /\ artifact' = [exists |-> TRUE, path |-> path, kind |-> kind,
                          obj |-> HybridBrain("")]
          /\ ret' = [op |-> "place_file", arg |-> path, raised |-> NoError,
                     value |-> FALSE]
    /\ UNCHANGED <<brain, fresh, output_artifact, fe_vars, w_vars, adapter_vars, cache_vars>>

NextAdapter == AdapterTrain \/ AdapterSaveModel \/ AdapterLoadModel \/ PlaceFile

SpecAdapter == Init /\ [][NextAdapter]_vars

----------------------------------------------------------------------------
(* Two threads calling the adapter and the model cache.  A call runs in    *)
(* steps: what it computes before "with lock:", the wait for the lock, and *)
(* the block under the lock, which ends by releasing it.  Thread t1 works  *)
(* on product P1 and thread t2 on product P2.                              *)

product_of(t) == IF t = "t1" THEN "P1" ELSE "P2"

\* the history a thread trains on: t1 a cold-start one, t2 an ML one
history_of(t) == IF t = "t1" THEN 3 ELSE 4

ConcFit == CHOOSE fit \in AdapterFits : fit.val_mae = 1200

\* f"models/xgboost_{product_id}.pkl"
path_of(product_id) ==
    IF product_id = "P1" THEN "models/xgboost_P1.pkl" ELSE "models/xgboost_P2.pkl"

\* f"forecast_{productId}"
key_of(product_id) == IF product_id = "P1" THEN "forecast_P1" ELSE "forecast_P2"

MaxLookups == 1

MaxTicks == 1

\* the service starts with an empty registry, an empty cache and the model
\* file of P1 on disk, saved by an earlier run from an ML state
InitConc ==
    /\ InitFe /\ InitW /\ InitAdapter /\ InitCache
    /\ brain = HybridBrain("P1")
    /\ fresh = HybridBrain("P1")
    /\ output_artifact = NoArtifact
    /\ ret = [op |-> "init", arg |-> 0, raised |-> NoError, value |-> FALSE]
    /\ artifact = save_model(train(HybridBrain("P1"), AdapterHistories[4], "P1",
                                   ConcFit).state,
                             NoArtifact, path_of("P1")).artifact

\* train(sales_data, product_id) up to "with _TRAINING_LOCK:"
ConcTrainCall ==
    \E t \in Threads :
        LET r == train(HybridBrain(product_of(t)), AdapterHistories[history_of(t)],
                       product_of(t), ConcFit)
        IN  /\ pc[t] = "idle"
            /\ pc' = [pc EXCEPT ![t] = IF r.raised = NoError THEN "train_lock"
                                       ELSE "idle"]
            /\ local' = [local EXCEPT ![t] =
                            [op |-> "train", product_id |-> product_of(t),
                             key |-> "", history |-> history_of(t),
                             brain |-> r.state,
                             raised |-> r.raised, value |-> r.value.success]]
            /\ UNCHANGED <<engine_vars, fe_vars, w_vars, training_state,
                           training_lock, cache_vars>>

\* load_model(product_id, model_path) up to "with _TRAINING_LOCK:"
ConcLoadCall ==
    \E t \in Threads :
        LET r == load_model(HybridBrain(product_of(t)), artifact, product_of(t),
                            path_of(product_of(t)))
        IN  /\ pc[t] = "idle"
            /\ pc' = [pc EXCEPT ![t] = IF r.value THEN "load_lock" ELSE "idle"]
            /\ local' = [local EXCEPT ![t] =
                            IF r.value
                            THEN [op |-> "load_model", product_id |-> product_of(t),
                                  key |-> "", history |-> 0, brain |-> r.state,
                                  raised |-> NoError, value |-> TRUE]
                            ELSE NoLocal]
            /\ UNCHANGED <<engine_vars, fe_vars, w_vars, training_state,
                           training_lock, cache_vars>>

\* "with _TRAINING_LOCK:" is entered
ConcRegistryAcquire ==
    \E t \in Threads :
        /\ pc[t] \in {"train_lock", "load_lock"}
        /\ lock_free(training_lock)
        /\ training_lock' = t
        /\ pc' = [pc EXCEPT ![t] = IF pc[t] = "train_lock" THEN "train_in"
                                   ELSE "load_in"]
        /\ UNCHANGED <<engine_vars, fe_vars, w_vars, training_state, local,
                       cache_vars>>

\* the block under _TRAINING_LOCK, the release at its end and the return
ConcRegistryWrite ==
    \E t \in Threads :
        /\ pc[t] \in {"train_in", "load_in"}
        /\ training_state' = registry_put(training_state, local[t].product_id,
                                          Entry(local[t].brain))
        /\ training_lock' = ""
        /\ pc' = [pc EXCEPT ![t] = "idle"]
        /\ local' = [local EXCEPT ![t] = IF pc[t] = "train_in" THEN @ ELSE NoLocal]
        /\ UNCHANGED <<engine_vars, fe_vars, w_vars, cache_vars>>

\* model_cache.get / set / remove / clear is called
ConcCacheCall ==
    \E t \in Threads, op \in {"get", "set", "remove", "clear"} :
        /\ pc[t] = "idle"
        /\ op = "get" => model_cache.hits + model_cache.misses < MaxLookups
        /\ pc' = [pc EXCEPT ![t] = "cache_lock"]
        /\ local' = [local EXCEPT ![t] =
                        [NoLocal EXCEPT !.op = op,
                                        !.key = IF op = "clear" THEN ""
                                                ELSE key_of(product_of(t))]]
        /\ UNCHANGED <<engine_vars, fe_vars, w_vars, training_state,
                       training_lock, cache_vars>>

\* "with self._lock:" is entered
ConcCacheAcquire ==
    \E t \in Threads :
        /\ pc[t] = "cache_lock"
        /\ lock_free(cache_lock)
        /\ cache_lock' = t
        /\ pc' = [pc EXCEPT ![t] = "cache_in"]
        /\ UNCHANGED <<engine_vars, fe_vars, w_vars, training_state,
                       training_lock, local, model_cache, clock>>

\* one round of the eviction loop of set
ConcCacheEvict ==
    \E t \in Threads :
        /\ pc[t] = "cache_in"
        /\ local[t].op = "set"
        /\ at_capacity(model_cache)
        /\ model_cache' = cache_evict(model_cache)
        /\ UNCHANGED <<engine_vars, fe_vars, w_vars, adapter_vars, cache_lock, clock>>

\* the rest of the block under self._lock, the release at its end and the return
ConcCacheApply ==
    \E t \in Threads :
        /\ pc[t] = "cache_in"
        /\ ~(local[t].op = "set" /\ at_capacity(model_cache))
        /\ model_cache' =
              CASE local[t].op = "get" -> cache_get(model_cache, local[t].key, clock).cache
                [] local[t].op = "set" ->
                      cache_insert(model_cache, local[t].key, local[t].key, clock)
                [] local[t].op = "remove" -> cache_remove(model_cache, local[t].key).cache
                [] OTHER -> cache_clear(model_cache)
        /\ cache_lock' = ""
        /\ pc' = [pc EXCEPT ![t] = "idle"]
        /\ local' = [local EXCEPT ![t] = NoLocal]
        /\ UNCHANGED <<engine_vars, fe_vars, w_vars, training_state,
                       training_lock, clock>>

\* more than ttl_seconds pass
Tick ==
    /\ clock < MaxTicks * (ttl_seconds + 1)
    /\ clock' = clock + ttl_seconds + 1
    /\ UNCHANGED <<engine_vars, fe_vars, w_vars, adapter_vars, model_cache, cache_lock>>

NextConc ==
    \/ ConcTrainCall \/ ConcLoadCall \/ ConcRegistryAcquire \/ ConcRegistryWrite
    \/ ConcCacheCall \/ ConcCacheAcquire \/ ConcCacheEvict \/ ConcCacheApply
    \/ Tick

SpecConc == InitConc /\ [][NextConc]_vars

----------------------------------------------------------------------------
(* main.py: the product id of a request on its way to a model file path.   *)
(* A product id is a sequence of characters; a model file is named by the  *)
(* product id its path was built from.  The handlers are followed up to    *)
(* the model file they open; the forecast itself is predict_next_days.     *)

Chars == {"a", "b", ".", "/"}

MaxIdLen == 3

ProductIdStrings == UNION {[1..n -> Chars] : n \in 0..MaxIdLen}

\* the product ids with a file models/xgboost_<id>.pkl on disk
ModelFiles == {<<"a">>}

\* the character class [a-zA-Z0-9_\-\s]
allowed_char(c) == c \in {"a", "b", "_", "-", " "}

HTTPException(status_code) == [type |-> "HTTPException", msg |-> "", status_code |-> status_code]

\* sanitize_product_id(product_id)
sanitize_product_id(product_id) ==
    LET safe_id == SelectSeq(product_id, allowed_char)
    IN  IF safe_id = << >> \/ Len(safe_id) > 100
        THEN [raised |-> HTTPException(400), value |-> << >>]
        ELSE [raised |-> NoError, value |-> safe_id]

\* os.path.exists of one of the candidate paths f"xgboost_{product_id}.pkl"
model_exists(product_id) == product_id \in ModelFiles

\* a response: the status, whether model paths were built, and from which id
Response(status, built, path_id) ==
    [status |-> status, built |-> built, path_id |-> path_id,
     loaded |-> built /\ status = 200 /\ model_exists(path_id)]

\* GET /api/ml/forecast
get_forecast(productId) ==
    LET safe == sanitize_product_id(productId)
    IN  IF safe.raised # NoError THEN Response(400, FALSE, << >>)
        ELSE IF ~model_exists(safe.value) THEN Response(404, TRUE, safe.value)
        ELSE Response(200, TRUE, safe.value)

\* POST /api/ml/predict-universal with valid sales_data; "universal" is << >>
predict_universal(request_product_id) ==
    IF request_product_id # << >>
    THEN Response(200, TRUE, request_product_id)
    ELSE Response(200, FALSE, << >>)

\* GET /api/ml/report/weekly; without product_id the ids come from the files on disk
get_weekly_report(product_id) ==
    IF product_id # << >>
    THEN Response(200, TRUE, product_id)
    ELSE Response(200, TRUE, CHOOSE pid \in ModelFiles : TRUE)

Endpoints == {"get_forecast", "predict_universal", "get_weekly_report"}

Answer(op, product_id, response) ==
    [op |-> op, arg |-> product_id, raised |-> NoError, value |-> response]

GetForecast ==
    /\ \E productId \in ProductIdStrings :
          ret' = Answer("get_forecast", productId, get_forecast(productId))
    /\ UNCHANGED <<brain, artifact, output_artifact, fresh, fe_vars, w_vars, adapter_vars, cache_vars>>

PredictUniversal ==
    /\ \E product_id \in ProductIdStrings :
          ret' = Answer("predict_universal", product_id, predict_universal(product_id))
    /\ UNCHANGED <<brain, artifact, output_artifact, fresh, fe_vars, w_vars, adapter_vars, cache_vars>>

GetWeeklyReport ==
    /\ \E product_id \in ProductIdStrings :
          ret' = Answer("get_weekly_report", product_id, get_weekly_report(product_id))
    /\ UNCHANGED <<brain, artifact, output_artifact, fresh, fe_vars, w_vars, adapter_vars, cache_vars>>

NextHttp == GetForecast \/ PredictUniversal \/ GetWeeklyReport

SpecHttp == Init /\ [][NextHttp]_vars

----------------------------------------------------------------------------
(* Forecasts next to the history they continue: the caller keeps the       *)
(* history it trained on, daily rows without a gap and with quantities     *)
(* above 0, so the day k days before a forecast date is a row of the       *)
(* history or an earlier point of the forecast.                            *)

KeptLens == {7, 13, 14, MaxLen}
KeptDays == {1, 2, 3, 8}

TrainKept ==
    /\ ret.op = "init"
    /\ \E start \in StartDays, n \in KeptLens, base \in Bases \ {0}, up \in Ups,
          spike \in Spikes, fit \in FitOutcomes :
          LET r == train(brain, History(start, n, base, up, spike), "P1", fit)
          IN  /\ brain' = r.state
              /\ ret' = [op |-> "train_kept",
                         arg |-> [history |-> History(start, n, base, up, spike),
                                  days |-> 0],
                         raised |-> r.raised, value |-> << >>]
    /\ UNCHANGED <<artifact, output_artifact, fresh, fe_vars, w_vars, adapter_vars, cache_vars>>

PredictKept ==
    /\ ret.op = "train_kept"
    /\ \E days \in KeptDays :
          LET r == predict_next_days(brain, days, Now)
          IN  ret' = [op |-> "predict_kept",
                      arg |-> [history |-> ret.arg.history, days |-> days],
                      raised |-> r.raised, value |-> r.value]
    /\ UNCHANGED <<brain, artifact, output_artifact, fresh, fe_vars, w_vars, adapter_vars, cache_vars>>

NextKept == TrainKept \/ PredictKept

SpecKept == Init /\ [][NextKept]_vars

----------------------------------------------------------------------------
(* The /api/ml/train request next to another caller of the adapter, both   *)
(* on product P1.  Thread t1 is the request: train(data, P1), then         *)
(* save_model(P1, path).  Thread t2 calls train(P1) with other data or     *)
(* load_model(P1), as EnsemblePredictor.predict does, any number of times. *)

\* the data a thread trains P1 on: the request a cold-start history, t2 an ML one
race_history_of(t) == IF t = "t1" THEN 3 ELSE 4

\* train(sales_data, "P1") up to "with _TRAINING_LOCK:"
RaceTrainCall ==
    \E t \in Threads :
        /\ pc[t] = "idle"
        /\ t = "t1" => local[t].op = ""
        /\ pc' = [pc EXCEPT ![t] = "train_lock"]
        /\ local' = [local EXCEPT ![t] =
                        [op |-> "train", product_id |-> "P1", key |-> "",
                         history |-> race_history_of(t),
                         brain |-> train(HybridBrain("P1"),
                                         AdapterHistories[race_history_of(t)],
                                         "P1", ConcFit).state,
                         raised |-> NoError, value |-> TRUE]]
        /\ UNCHANGED <<engine_vars, fe_vars, w_vars, training_state,
                       training_lock, cache_vars>>

\* load_model("P1", model_path) of the other caller up to "with _TRAINING_LOCK:"
RaceLoadCall ==
    /\ pc["t2"] = "idle"
    /\ load_model(HybridBrain("P1"), artifact, "P1", path_of("P1")).value
    /\ pc' = [pc EXCEPT !["t2"] = "load_lock"]
    /\ local' = [local EXCEPT !["t2"] =
                    [op |-> "load_model", product_id |-> "P1", key |-> "",
                     history |-> 0,
                     brain |-> load_model(HybridBrain("P1"), artifact, "P1",
                                          path_of("P1")).state,
                     raised |-> NoError, value |-> TRUE]]
    /\ UNCHANGED <<engine_vars, fe_vars, w_vars, training_state,
                   training_lock, cache_vars>>

\* the request goes on to save_model("P1", model_path): "with _TRAINING_LOCK:" is entered
RaceSaveAcquire ==
    /\ pc["t1"] = "idle" /\ local["t1"].op = "train"
    /\ lock_free(training_lock)
    /\ training_lock' = "t1"
    /\ pc' = [pc EXCEPT !["t1"] = "save_in"]
    /\ UNCHANGED <<engine_vars, fe_vars, w_vars, training_state, local, cache_vars>>

\* "state = _TRAINING_STATE.get(product_id)" and the release of the lock
RaceSaveRead ==
    /\ pc["t1"] = "save_in"
    /\ local' = [local EXCEPT !["t1"].op = "save_model",
                              !["t1"].brain = training_state["P1"].brain,
                              !["t1"].value = training_state["P1"].present]
    /\ training_lock' = ""
    /\ pc' = [pc EXCEPT !["t1"] = "save_file"]
    /\ UNCHANGED <<engine_vars, fe_vars, w_vars, training_state, cache_vars>>

\* the rest of save_model: the overwrite guard and brain.save_model
RaceSaveFile ==
    /\ pc["t1"] = "save_file"
    /\ artifact' = adapter_save_state([present |-> local["t1"].value,
                                       brain |-> local["t1"].brain],
                                      artifact, "P1", path_of("P1")).artifact
    /\ local' = [local EXCEPT !["t1"].value =
                    adapter_save_state([present |-> local["t1"].value,
                                        brain |-> local["t1"].brain],
                                       artifact, "P1", path_of("P1")).value]
    /\ pc' = [pc EXCEPT !["t1"] = "done"]
    /\ UNCHANGED <<brain, fresh, output_artifact, ret, fe_vars, w_vars, training_state,
                   training_lock, cache_vars>>

NextRace ==
    \/ RaceTrainCall \/ RaceLoadCall \/ ConcRegistryAcquire \/ ConcRegistryWrite
    \/ RaceSaveAcquire \/ RaceSaveRead \/ RaceSaveFile

SpecRace == InitConc /\ [][NextRace]_vars

----------------------------------------------------------------------------
(* The service: POST /api/ml/train and GET /api/ml/forecast for product P1, *)
(* one request at a time, with the model cache and the two directories a    *)
(* model file of P1 is found in; models/artifacts holds no file.            *)

\* os.path.join(BASE_DIR, "training", "models_output", f"xgboost_{productId}.pkl")
output_path_of(product_id) ==
    IF product_id = "P1" THEN "training/models_output/xgboost_P1.pkl"
    ELSE "training/models_output/xgboost_P2.pkl"

\* the first of model_candidates that exists (none: a record with exists FALSE)
model_candidate(out_art, art) == IF out_art.exists THEN out_art ELSE art

\* the answer of a handler
Served(cache, reg, art, status, saved, predictions, model_loaded) ==
    [cache |-> cache, registry |-> reg, artifact |-> art, status |-> status,
     saved |-> saved, predictions |-> predictions, model_loaded |-> model_loaded]

\* get_forecast once product_forecaster is bound: predict_next_days and the answer
forecast_with(cache, reg, art, product_forecaster, days, model_path) ==
    Served(cache, reg, art, 200, FALSE,
           predict_next_days(product_forecaster, days, Now).value, model_path)

\* get_forecast after a cache miss: load_model from model_path, model_cache.set
forecast_loaded(cache, reg, art, found, loaded, productId, days, now) ==
    IF ~loaded.value
    THEN Served(cache, reg, art, 500, FALSE, << >>, found.path)
    ELSE forecast_with(cache_set(cache, key_of(productId), loaded.state, now),
                       reg, art, loaded.state, days, found.path)

\* get_forecast after model_cache.get: a hit is a stored forecaster
forecast_cached(cache, reg, art, found, got, productId, days, now) ==
    IF got.cache.hits # cache.hits
    THEN forecast_with(got.cache, reg, art, got.value, days, found.path)
    ELSE forecast_loaded(got.cache, reg, art, found,
                         load_model(HybridBrain(productId), found, productId,
                                    found.path),
                         productId, days, now)

\* GET /api/ml/forecast for a product id that sanitize_product_id keeps
serve_forecast(cache, reg, out_art, art, productId, days, now) ==
    IF ~model_candidate(out_art, art).exists
    THEN Served(cache, reg, art, 404, FALSE, << >>, "")
    ELSE forecast_cached(cache, reg, art, model_candidate(out_art, art),
                         cache_get(cache, key_of(productId), now),
                         productId, days, now)

\* train_model after forecaster.train returned or raised as r: forecaster.save_model
train_model_end(cache, reg, art, product_id, r) ==
    IF r.raised # NoError
    THEN Served(cache, reg, art,
                IF r.raised.type = "ValueError" THEN 400 ELSE 500, FALSE, << >>, "")
    ELSE Served(cache, r.registry,
                adapter_save_model(r.registry, art, product_id,
                                   path_of(product_id)).artifact,
                200,
                adapter_save_model(r.registry, art, product_id,
                                   path_of(product_id)).value,
                << >>, "")

\* the first three rows are dictionaries with 'date' and 'quantity'
rows_well_formed(sales_data) ==
    \A i \in 1..Len(sales_data) :
        i <= 3 => {"date", "quantity"} \subseteq DOMAIN sales_data[i]

\* POST /api/ml/train for a product id that sanitize_product_id keeps
train_model(cache, reg, art, sales_data, product_id, fit) ==
    IF Len(sales_data) = 0 \/ Len(sales_data) < 7 \/ ~rows_well_formed(sales_data)
    THEN Served(cache, reg, art, 400, FALSE, << >>, "")
    ELSE train_model_end(cache, reg, art, product_id,
                         adapter_train(reg, sales_data, product_id, fit))

\* the histories posted to /api/ml/train
ServeHistories ==
    <<History(0, 7, 3, 0, 0),
      History(0, 7, 20, 0, 0),
      History(0, cold_start_threshold, 3, 5, 0),
      History(0, 1, 3, 0, 0),
      DropColumn(History(0, 7, 3, 0, 0), "quantity")>>

ServeDays == {1, 7}

\* the most forecast requests of one run
MaxForecasts == 3

\* the caller's record of a request and its answer
ServeReturn(op, arg, r) ==
    [op |-> op, arg |-> arg, raised |-> NoError,
     value |-> [status |-> r.status, saved |-> r.saved,
                predictions |-> r.predictions, model_loaded |-> r.model_loaded]]

\* the state after a handler answered r
ServeStep(op, arg, r) ==
    /\ model_cache' = r.cache
    /\ training_state' = r.registry
    /\ artifact' = r.artifact
    /\ ret' = ServeReturn(op, arg, r)

\* a POST /api/ml/train request for P1
ServeTrain ==
    /\ \E k \in DOMAIN ServeHistories, fit \in AdapterFits :
          ServeStep("train_model", [history |-> k, days |-> 0, after |-> ret.op,
                                    after_saved |-> FALSE],
                    train_model(model_cache, training_state, artifact,
                                ServeHistories[k], "P1", fit))
    /\ UNCHANGED <<brain, fresh, output_artifact, fe_vars, w_vars, training_lock,
                   pc, local, cache_lock, clock>>

\* a GET /api/ml/forecast request for P1
ServeForecast ==
    /\ model_cache.hits + model_cache.misses < MaxForecasts
    /\ \E days \in ServeDays :
          ServeStep("get_forecast",
                    [history |-> 0, days |-> days, after |-> ret.op,
                     after_saved |-> ret.op = "train_model" /\ ret.value.saved],
                    serve_forecast(model_cache, training_state, output_artifact,
                                   artifact, "P1", days, clock))
    /\ UNCHANGED <<brain, fresh, output_artifact, fe_vars, w_vars, training_lock,
                   pc, local, cache_lock, clock>>

\* training/train.py trains P1 on its own data and saves under training/models_output
OfflineTrain ==
    /\ ~output_artifact.exists
    /\ output_artifact' = save_model(train(HybridBrain("P1"), ServeHistories[3],
                                           "P1", ConcFit).state,
                                     output_artifact, output_path_of("P1")).artifact
    /\ UNCHANGED <<brain, artifact, fresh, ret, fe_vars, w_vars, adapter_vars,
                   cache_vars>>

NextServe == ServeTrain \/ ServeForecast \/ OfflineTrain \/ Tick

SpecServe == Init /\ [][NextServe]_vars

----------------------------------------------------------------------------
(* ModelCache on its own: get, set, remove and clear called one at a time.  *)
(* The caller keeps, next to each call, the cache as it was before the call *)
(* and the keys in the order of their last use (set or successful get).     *)

CacheKeys == {"forecast_P1", "forecast_P2", "forecast_P3"}

CacheValues == {"m1", "m2"}

\* the most get calls between two clear calls
MaxGets == 2

\* the keys of the entries of c
cached_keys(c) == {c.entries[i].key : i \in 1..Len(c.entries)}

\* the order of last use after a call on key that left the cache as c
use_order(used, c, key, touched) ==
    LET kept(k) == k # key /\ k \in cached_keys(c)
    IN  IF touched /\ key \in cached_keys(c)
        THEN Append(SelectSeq(used, kept), key)
        ELSE SelectSeq(used, kept)

\* the caller's record of a cache call
CacheReturn(op, key, before, used, value, used_after) ==
    [op |-> op, arg |-> [key |-> key, before |-> before, used |-> used],
     raised |-> NoError, value |-> [result |-> value, used |-> used_after]]

\* the order of last use the caller holds
UsedNow == IF ret.op = "init" THEN << >> ELSE ret.value.used

CacheGet ==
    /\ model_cache.hits + model_cache.misses < MaxGets
    /\ \E key \in CacheKeys :
          /\ model_cache' = cache_get(model_cache, key, clock).cache
          /\ ret' = CacheReturn("cache_get", key, model_cache, UsedNow,
                                cache_get(model_cache, key, clock).value,
                                use_order(UsedNow, model_cache', key, TRUE))
    /\ UNCHANGED <<brain, artifact, output_artifact, fresh, fe_vars, w_vars,
                   adapter_vars, cache_lock, clock>>

CacheSet ==
    /\ \E key \in CacheKeys, value \in CacheValues :
          /\ model_cache' = cache_set(model_cache, key, value, clock)
          /\ ret' = CacheReturn("cache_set", key, model_cache, UsedNow, None,
                                use_order(UsedNow, model_cache', key, TRUE))
    /\ UNCHANGED <<brain, artifact, output_artifact, fresh, fe_vars, w_vars,
                   adapter_vars, cache_lock, clock>>

CacheRemove ==
    /\ \E key \in CacheKeys :
          /\ model_cache' = cache_remove(model_cache, key).cache
          /\ ret' = CacheReturn("cache_remove", key, model_cache, UsedNow,
                                IF cache_remove(model_cache, key).value
                                THEN "True" ELSE "False",
                                use_order(UsedNow, model_cache', key, FALSE))
    /\ UNCHANGED <<brain, artifact, output_artifact, fresh, fe_vars, w_vars,
                   adapter_vars, cache_lock, clock>>

CacheClear ==
    /\ model_cache' = cache_clear(model_cache)
    /\ ret' = CacheReturn("cache_clear", "", model_cache, UsedNow, None, << >>)
    /\ UNCHANGED <<brain, artifact, output_artifact, fresh, fe_vars, w_vars,
                   adapter_vars, cache_lock, clock>>

NextCache == CacheGet \/ CacheSet \/ CacheRemove \/ CacheClear \/ Tick

SpecCache == Init /\ [][NextCache]_vars

----------------------------------------------------------------------------
(* The time series split of _train_ml_model: the frame is train_df, sorted  *)
(* by date with its index reset, so n_samples = len(df) >= 14 rows.         *)

\* val_frac, in thousandths
val_frac(n_samples) ==
    IF n_samples > 300 THEN 200
    ELSE IF n_samples > 150 THEN 220
    ELSE IF n_samples > 80 THEN 250
    ELSE 280

\* min(int(n_samples * val_frac), 80), without the floor of 5
n_val_unfloored(n_samples) ==
    IF (n_samples * val_frac(n_samples)) \div S < 80
    THEN (n_samples * val_frac(n_samples)) \div S
    ELSE 80

\* "n_val = max(5, min(int(n_samples * val_frac), 80))"
n_val(n_samples) ==
    IF n_val_unfloored(n_samples) > 5 THEN n_val_unfloored(n_samples) ELSE 5

\* X.iloc[:-k]: no row when k = 0 or k >= len(X)
iloc_upto(X, k) ==
    IF k = 0 \/ k >= Len(X) THEN << >> ELSE SubSeq(X, 1, Len(X) - k)

\* X.iloc[-k:]: every row when k = 0 or k >= len(X)
iloc_last(X, k) ==
    IF k = 0 \/ k >= Len(X) THEN X ELSE SubSeq(X, Len(X) - k + 1, Len(X))

\* "X_train, X_val = X.iloc[:-n_val], X.iloc[-n_val:]"
split(X) ==
    [n_val |-> n_val(Len(X)),
     X_train |-> iloc_upto(X, n_val(Len(X))),
     X_val |-> iloc_last(X, n_val(Len(X)))]

\* the largest frame that is split
MaxSplitRows == 410

\* rows per date of the frames: one sale a day, or two
PerDay == {1, 2}

\* a sorted frame of n rows: the row label (the reset index) and the date
SplitFrame(n, per_day) ==
    [i \in 1..n |-> [index |-> i - 1, date |-> (i - 1) \div per_day]]

TrainSplit ==
    /\ ret.op = "init"
    /\ \E n \in cold_start_threshold..MaxSplitRows, per_day \in PerDay :
          ret' = [op |-> "split", arg |-> SplitFrame(n, per_day),
                  raised |-> NoError, value |-> split(SplitFrame(n, per_day))]
    /\ UNCHANGED <<brain, artifact, output_artifact, fresh, fe_vars, w_vars,
                   adapter_vars, cache_vars>>

SpecSplit == Init /\ [][TrainSplit]_vars

----------------------------------------------------------------------------
(* Properties *)

Forecast == ret.op = "predict" /\ ret.raised = NoError

(* C1: a forecast of a seeded state with a stored last training date has    *)
(* exactly `days` points, the i-th dated last_date + i days, so the dates   *)
(* are strictly increasing without gap or repeat.                           *)
C1_DatesFollowLastDate ==
    (Forecast /\ brain.last_date # -1) =>
        /\ ret.arg \in 1..30
        /\ Len(ret.value) = ret.arg
        /\ \A i \in 1..Len(ret.value) :
              ret.value[i].date = Civil(brain.last_date + i)
        /\ \A i \in 1..(Len(ret.value) - 1) :
              DateLess(ret.value[i].date, ret.value[i + 1].date)

\* a 30-day forecast of an ML-trained state that runs into the next month
C1_Witness ==
    /\ Forecast
    /\ ret.arg = 30
    /\ uses_ml(brain)
    /\ ret.value[1].date.month # ret.value[30].date.month

(* C2: every point of a forecast of a state with std_error >= 0 has an      *)
(* integer predicted_quantity >= 1 and 0 <= lower_bound <=                  *)
(* predicted_quantity <= upper_bound.                                       *)
C2_PointsConsistent ==
    (Forecast /\ brain.std_error >= 0) =>
        \A i \in 1..Len(ret.value) :
            LET p == ret.value[i]
            IN  /\ p.predicted_quantity \in Int
                /\ p.predicted_quantity >= 1
                /\ 0 <= p.lower_bound
                /\ p.lower_bound <= p.predicted_quantity
                /\ p.predicted_quantity <= p.upper_bound

\* a forecast held at the floor of 1 on some day, with a band cut off at 0
C2_Witness ==
    /\ Forecast
    /\ brain.std_error > 0
    /\ \E i \in 1..Len(ret.value) :
          /\ ret.value[i].predicted_quantity = 1
          /\ ret.value[i].lower_bound = 0
          /\ ret.value[i].upper_bound > 1

\* two histories that agree except for the quantity of row u
Mutate(df, u, q) == [df EXCEPT ![u].quantity = q]

(* C3: no lookahead: the value of every selected feature column at row t    *)
(* of the training matrix is unchanged when the quantity of row t or of a   *)
(* later row is changed.                                                    *)
C3_NoLookahead ==
    fe_out # << >> =>
        \A t \in 1..Len(fe_df) : \A col \in DOMAIN fe_out[t] :
            \A u \in t..Len(fe_df) : \A q \in Quantities :
                feature_engineering(Mutate(fe_df, u, q), col, t) = fe_out[t][col]

(* C4: for every row t, the first row included, and every window w in       *)
(* {3, 7, 14, 21, 28}, roll_mean_w at row t is the same for two histories    *)
(* that differ only in the quantity of row t or of a later row.             *)
C4_RollingMeanNoLeak ==
    fe_out # << >> =>
        \A t \in 1..Len(fe_df) :
            \A col \in {"roll_mean_3", "roll_mean_7", "roll_mean_14",
                        "roll_mean_21", "roll_mean_28"} :
                \A u \in t..Len(fe_df) : \A q \in Quantities :
                    feature_engineering(Mutate(fe_df, u, q), col, t)
                        = feature_engineering(fe_df, col, t)

(* C5: smoothing cap: between two consecutive points of a forecast the      *)
(* relative change |pred[i+1] - pred[i]| / pred[i] of the returned integers *)
(* does not exceed max_daily_change = 0.15 + 0.15 * variation_scale.        *)
C5_SmoothingCap ==
    Forecast =>
        \A i \in 1..(Len(ret.value) - 1) :
            Abs(ret.value[i + 1].predicted_quantity - ret.value[i].predicted_quantity) * S
                <= max_daily_change(data_tier(brain).variation_scale)
                   * ret.value[i].predicted_quantity

(* C6: save_model of a trained state, then load_model of that path into a   *)
(* fresh HybridBrain: predict_next_days(7) on the loaded instance returns   *)
(* what predict_next_days(7) returns on the saved state.                    *)
C6_RoundTrip ==
    (ret.op = "predict_loaded" /\ artifact.exists /\ ret.arg = artifact.path) =>
        [raised |-> ret.raised, value |-> ret.value]
            = predict_next_days(artifact.obj, 7, Now)

\* an ML-trained state came back: 7 points, though overfit_ratio was not restored
C6_Witness ==
    /\ ret.op = "predict_loaded"
    /\ artifact.exists /\ ret.arg = artifact.path
    /\ ret.raised = NoError /\ Len(ret.value) = 7
    /\ fresh.is_trained_ml /\ fresh.model.fitted
    /\ fresh.overfit_ratio # artifact.obj.overfit_ratio

(* C7: train on n >= 1 cleaned rows succeeds; it reports mode COLD_START    *)
(* with no regressor exactly when n < 14 and mode ML_TRAINED with a fitted  *)
(* regressor otherwise, and no other mode.                                  *)
C7_TrainingMode ==
    (ret.op = "train" /\ ret.arg >= 1) =>
        /\ ret.raised = NoError /\ ret.value.success
        /\ ret.value.mode \in {"COLD_START", "ML_TRAINED"}
        /\ (ret.value.mode = "COLD_START") <=> (ret.arg < 14)
        /\ brain.model.fitted <=> (ret.arg >= 14)
        /\ brain.is_trained_ml <=> (ret.arg >= 14)

(* C8: after a successful training, in either mode, the stored ensemble     *)
(* weights add up to 1.0; the same holds of _compute_ensemble_weights for   *)
(* every improvement, negative ones included, with the state's coefficient  *)
(* of variation and overfit ratio.                                          *)
C8_WeightsSumToOne ==
    (DOMAIN brain.last_row # {}) =>
        /\ brain.ensemble_weights.ml + brain.ensemble_weights.rule = S
        /\ \A improvement \in Improvements :
              LET w == compute_ensemble_weights(improvement, brain.data_cv,
                                                brain.overfit_ratio)
              IN  w.ml + w.rule = S

\* an ML training whose model is worse than the baseline (negative improvement)
C8_Witness ==
    /\ ret.op = "train" /\ ret.raised = NoError
    /\ brain.is_trained_ml
    /\ ret.value.improvement_pct < 0
    /\ brain.ensemble_weights.ml = 500

(* C9: for a fixed coefficient of variation and overfit ratio, a higher     *)
(* improvement never gets a lower model weight from                         *)
(* _compute_ensemble_weights, penalties and clamping included.              *)
C9_MonotoneTrust ==
    w_out # << >> =>
        \A other \in Improvements :
            LET w == compute_ensemble_weights(other, w_in.data_cv, w_in.overfit_ratio)
            IN  /\ (other <= w_in.improvement => w.ml <= w_out.ml)
                /\ (other >= w_in.improvement => w.ml >= w_out.ml)

\* a 95 % improvement under both penalties: 0.85 - 0.10 - 0.15
C9_Witness ==
    /\ w_out # << >>
    /\ w_in.improvement = 95 * S
    /\ w_in.data_cv > 600 /\ w_in.overfit_ratio > 3 * S
    /\ w_out.ml = 600

(* C10: predict_next_days raises the parameter error when days is outside   *)
(* 1..30 and the precondition error when days is valid and the state has no *)
(* seed row; the two errors differ, no points are returned, and the state   *)
(* is what it was before the call.                                          *)
C10_PredictErrors ==
    /\ [](ret.op = "predict" =>
            /\ (ret.arg < 1 \/ ret.arg > 30) =>
                  /\ ret.raised = ValueError("Days must be between 1 and 30")
                  /\ ret.value = << >>
            /\ (ret.arg >= 1 /\ ret.arg <= 30 /\ DOMAIN brain.last_row = {}) =>
                  /\ ret.raised = ValueError("Model not trained")
                  /\ ret.value = << >>
                  /\ ret.raised # ValueError("Days must be between 1 and 30")
            /\ (ret.arg >= 1 /\ ret.arg <= 30 /\ DOMAIN brain.last_row # {}) =>
                  ret.raised = NoError)
    /\ [][(ret'.op = "predict" /\ ret'.raised # NoError) =>
            <<brain, artifact, fresh>>' = <<brain, artifact, fresh>>]_vars

\* both errors have been raised: days = 31 on a trained state, days = 7 on a new one
C10_Witness ==
    \/ /\ ret.op = "predict" /\ ret.arg = 31 /\ DOMAIN brain.last_row # {}
       /\ ret.raised.msg = "Days must be between 1 and 30"
    \/ /\ ret.op = "predict" /\ ret.arg = 7 /\ DOMAIN brain.last_row = {}
       /\ ret.raised.msg = "Model not trained"

\* the history of the last adapter train call
TrainedOn == AdapterHistories[ret.arg.history]

(* C11: adapter train fails with the data-format error when the history     *)
(* lacks the date or the quantity field and with the insufficient-data      *)
(* error when the history is empty or keeps no row with quantity > 0; the   *)
(* two errors differ, and after a failed train the registry entry of the    *)
(* product id is what it was before the call.                               *)
C11_TrainErrors ==
    ret.op = "adapter_train" =>
        /\ (TrainedOn # << >> /\ lacks_columns(TrainedOn)) =>
              ret.raised = ValueError("Data must have 'date' and 'quantity' columns")
        /\ (TrainedOn = << >> \/ (~lacks_columns(TrainedOn) /\ Clean(TrainedOn) = << >>)) =>
              ret.raised = ValueError("No valid sales data")
        /\ ret.raised # NoError =>
              training_state[ret.arg.product_id] = ret.arg.entry

(* C12: load_model returns False when the file is absent, unreadable or     *)
(* not a pickled engine state, and a failed adapter load_model leaves the   *)
(* registry entry unchanged; when it returns True the registered state has  *)
(* every field of the pickled state.                                        *)
C12_LoadAllOrNothing ==
    ret.op = "adapter_load_model" =>
        LET loadable == /\ artifact.exists
                        /\ artifact.path = ret.arg.path
                        /\ artifact.kind = "HybridBrain"
            entry == training_state[ret.arg.product_id]
        IN  /\ ~loadable => ~ret.value
            /\ ~ret.value => entry = ret.arg.entry
            /\ ret.value => (entry.present /\ entry.brain = artifact.obj)

(* C13: overwrite guard: when the file at the path is a pickled state with  *)
(* validation error e and the registered state has validation error         *)
(* v > 1.1 * e, adapter save_model returns False, raises nothing and        *)
(* leaves the file as it was.                                               *)
C13_OverwriteGuard ==
    ret.op = "adapter_save_model" =>
        LET before == ret.arg.artifact
            state == training_state[ret.arg.product_id]
        IN  (/\ state.present
             /\ before.exists /\ before.path = ret.arg.path
             /\ before.kind = "HybridBrain"
             /\ state.brain.val_mae * 10 > before.obj.val_mae * 11) =>
                /\ ret.value = FALSE
                /\ ret.raised = NoError
                /\ artifact = before

\* the first point of a forecast whose regressor raised at the first step
FirstPointOnFallback(b, days) ==
    LET pred_date == pred_date_of(b.last_date, 0)
        day_of_week == DayOfWeek(pred_date)
        tier == data_tier(b)
        features == prepare_feature_row(b, pred_date, b.last_row)
        final_pred == ensemble(ml_weight_of(b), features.roll_mean_7,
                               rule_pred_of(b, features, momentum_of(b), day_of_week))
    IN  integer_output(adjust(final_pred, tier, momentum_of(b),
                              dow_factor_of(b, tier, day_of_week),
                              Civil(pred_date), day_of_week, 0, days, << >>))

(* C14: when the regressor raises on some of the forecast steps,            *)
(* predict_next_days raises nothing and returns exactly `days` points on    *)
(* consecutive dates; a step at which the regressor raised uses the step's  *)
(* roll_mean_7 feature as the model estimate.                              *)
C14_RegressorFailureFallback ==
    ret.op = "predict_faulty" =>
        /\ ret.raised = NoError
        /\ Len(ret.value) = ret.arg.days
        /\ \A i \in 1..Len(ret.value) :
              ret.value[i].date = Civil(brain.last_date + i)
        /\ (IF ret.value[1].is_weekend THEN 1 ELSE 0) \in ret.arg.raises =>
              ret.value[1].predicted_quantity = FirstPointOnFallback(brain, ret.arg.days)

\* the regressor raised on the weekdays of a 7-day forecast and not on its weekend
C14_Witness ==
    /\ ret.op = "predict_faulty"
    /\ ret.arg = [days |-> 7, raises |-> {0}]
    /\ ret.raised = NoError
    /\ ~ret.value[1].is_weekend
    /\ \E i \in 2..7 : ret.value[i].is_weekend
    /\ ret.value[1].predicted_quantity
         # predict_next_days(brain, 7, Now).value[1].predicted_quantity

\* sum of the predicted quantities of a point list
SumPredicted(points) ==
    SumSeq([i \in 1..Len(points) |-> points[i].predicted_quantity])

\* | mean(points) - roll_mean_7 | * Len(points), in thousandths
DeviationTimesLen(points, roll_mean_7) ==
    Abs(SumPredicted(points) * S - Len(points) * roll_mean_7)

(* C15: the mean of a returned forecast deviates from the seed state's     *)
(* roll_mean_7 by at most the threshold of 100 percent (a forecast beyond  *)
(* the threshold would have been rescaled to within 50 percent).           *)
C15_PortfolioSanity ==
    (Forecast /\ ret.value # << >>) =>
        DeviationTimesLen(ret.value, brain.last_row.roll_mean_7) * 100
            <= 100 * Len(ret.value) * brain.last_row.roll_mean_7

(* C16: predict_next_days is read-only: a call leaves every field of the   *)
(* engine state as it was, and a call that follows a call with the same    *)
(* horizon returns the same point list (or raises the same error).         *)
C16_PredictReadOnly ==
    [][ret'.op = "predict_repeat" =>
          /\ brain' = brain
          /\ (ret.op = "predict_repeat" /\ ret.arg.days = ret'.arg.days) =>
                (ret'.value = ret.value /\ ret'.raised = ret.raised)]_vars

\* the second of two 7-day forecasts on one trained instance
C16_Witness ==
    /\ ret.op = "predict_repeat"
    /\ ret.arg = [days |-> 7, call |-> 2]
    /\ ret.raised = NoError
    /\ Len(ret.value) = 7

\* thread t has returned from a successful adapter train
ReturnedFromTrain(t) ==
    pc[t] = "idle" /\ local[t].op = "train" /\ local[t].raised = NoError

(* C17: once the concurrent calls train(data1, p1) and train(data2, p2)    *)
(* with p1 # p2 have returned, the registry maps each product to the state *)
(* built from that call's data under that product id; and no step of a     *)
(* call changes the registry entry of the other thread's product.          *)
C17_ProductIsolation ==
    /\ [](\A t \in Threads :
            ReturnedFromTrain(t) =>
                /\ training_state[product_of(t)].present
                /\ training_state[product_of(t)].brain
                     = train(HybridBrain(product_of(t)),
                             AdapterHistories[history_of(t)],
                             product_of(t), ConcFit).state
                /\ training_state[product_of(t)].brain.product_id = product_of(t))
    /\ [][\A t \in Threads :
            pc'[t] # pc[t] =>
                \A p \in ProductIds \ {product_of(t)} :
                    training_state'[p] = training_state[p]]_vars

\* both threads returned from train, one on a cold-start history and one on an ML one
C17_Witness ==
    /\ ReturnedFromTrain("t1") /\ ReturnedFromTrain("t2")
    /\ training_state["P1"].brain.is_trained_ml = FALSE
    /\ training_state["P2"].brain.is_trained_ml = TRUE

\* the threads inside a block that mutates the registry / the cache
InRegistryBlock == {t \in Threads : pc[t] \in {"train_in", "load_in"}}
InCacheBlock == {t \in Threads : pc[t] = "cache_in"}

(* C18: every mutation of _TRAINING_STATE and of the ModelCache happens in *)
(* a step of the thread that holds the registry's lock; a thread inside a  *)
(* mutating block holds that lock, so at most one thread is inside the     *)
(* blocks of one registry at a time.                                       *)
C18_MutationsUnderLock ==
    /\ [](/\ \A t \in InRegistryBlock : training_lock = t
          /\ \A t \in InCacheBlock : cache_lock = t
          /\ Cardinality(InRegistryBlock) <= 1
          /\ Cardinality(InCacheBlock) <= 1)
    /\ [][/\ training_state' # training_state =>
                \E t \in InRegistryBlock : training_lock = t /\ pc'[t] # pc[t]
          /\ model_cache' # model_cache =>
                \E t \in InCacheBlock : cache_lock = t]_vars

\* one thread evicts inside set while the other waits for the cache lock,
\* after the registry was written by train
C18_Witness ==
    /\ pc["t1"] = "cache_in" /\ local["t1"].op = "set" /\ at_capacity(model_cache)
    /\ pc["t2"] = "cache_lock"
    /\ cache_lock = "t1"
    /\ training_state["P2"].present

BurstTypes == {"SEASONAL", "VIRAL", "MONITORING"}

(* C19: the burst record computed at training always contains actual,      *)
(* expected, score, level, type and factors, and when its level is not     *)
(* NORMAL its type is one of SEASONAL, VIRAL, MONITORING.                  *)
C19_BurstRecord ==
    (ret.op = "train" /\ ret.raised = NoError) =>
        /\ {"actual", "expected", "score", "level", "type", "factors"}
              \subseteq DOMAIN brain.physics_metrics.burst
        /\ brain.physics_metrics.burst.level # "NORMAL" =>
              brain.physics_metrics.burst.type \in BurstTypes

\* the request's product id has a character outside the allowed class
HasDisallowedChar(product_id) ==
    \E i \in 1..Len(product_id) : ~allowed_char(product_id[i])

(* C20: a request whose product id has a character outside letters,        *)
(* digits, underscore, hyphen and space is answered with status 400; and   *)
(* a handler that builds model paths from the caller's product id builds   *)
(* them from an id that passed sanitize_product_id.                        *)
C20_PathTraversal ==
    (ret.op \in Endpoints /\ ret.arg # << >>) =>
        /\ HasDisallowedChar(ret.arg) => ret.value.status = 400
        /\ ret.value.built =>
              /\ sanitize_product_id(ret.arg).raised = NoError
              /\ ret.value.path_id = sanitize_product_id(ret.arg).value

\* X_pred = {k: features.get(k, 0) for k in self.feature_cols} at the first step
FirstFeatures(b) == prepare_feature_row(b, pred_date_of(b.last_date, 0), b.last_row)

(* C21: every feature column the regressor of an ML-trained state was      *)
(* trained on is a key of the row _prepare_feature_row builds at           *)
(* prediction time, so no trained feature is read as the default 0.        *)
C21_FeatureParity ==
    (Forecast /\ uses_ml(brain)) =>
        brain.feature_cols \subseteq DOMAIN FirstFeatures(brain)

\* np.expm1 of an output of the regressor, a value of the log1p table
expm1(x) == (CHOOSE q \in 0..40 : Log1pTable[q + 1] = x) * S

\* the first point of a forecast of `days` days whose model estimate at the
\* first step is ml_pred
FirstPointWith(b, days, ml_pred) ==
    LET pred_date == pred_date_of(b.last_date, 0)
        day_of_week == DayOfWeek(pred_date)
        final_pred == ensemble(ml_weight_of(b), ml_pred,
                               rule_pred_of(b, FirstFeatures(b), momentum_of(b),
                                            day_of_week))
    IN  integer_output(adjust(final_pred, data_tier(b), momentum_of(b),
                              dow_factor_of(b, data_tier(b), day_of_week),
                              Civil(pred_date), day_of_week, 0, days, << >>))

(* C22: the model estimate blended into the forecast of an ML-trained      *)
(* state is on the quantity scale: the first point is the one computed     *)
(* from max(0, expm1(regressor output)), the regressor being fit on        *)
(* log1p(quantity).                                                        *)
C22_OriginalScale ==
    (Forecast /\ uses_ml(brain)) =>
        ret.value[1].predicted_quantity
            = FirstPointWith(brain, ret.arg,
                             Max(0, expm1(model_predict(brain, FirstFeatures(brain)))))

\* current_row after loop index i of the forecast that returned the quantities preds
row_next(b, preds, i, row) ==
    update_row(row, prepare_feature_row(b, pred_date_of(b.last_date, i), row),
               SubSeq(preds, 1, i + 1), i)

\* current_row at the start of loop index i (counted from 0)
RECURSIVE row_at(_, _, _)
row_at(b, preds, i) ==
    IF i = 0 THEN b.last_row ELSE row_next(b, preds, i - 1, row_at(b, preds, i - 1))

\* the feature row of loop index i
features_at(b, preds, i) ==
    prepare_feature_row(b, pred_date_of(b.last_date, i), row_at(b, preds, i))

\* the quantity of day number pos of the timeline: the history, then the forecast
timeline(history, points, pos) ==
    IF pos <= Len(history) THEN history[pos].quantity * S
    ELSE points[pos - Len(history)].predicted_quantity * S

(* C23: at every forecast step i (target date last_date + i) and for k in  *)
(* {1, 2, 3, 7}, lag_k of the step's feature row is the quantity of the    *)
(* day k days before the target date: the observed quantity when that day  *)
(* is in the training history, the point predicted for it otherwise.       *)
C23_LagsTrackTimeline ==
    (ret.op = "predict_kept" /\ ret.raised = NoError) =>
        \A i \in 1..Len(ret.value) : \A k \in {1, 2, 3, 7} :
            Len(ret.arg.history) + i - k >= 1 =>
                features_at(brain, Quantities_of(ret.value), i - 1)[
                    CASE k = 1 -> "lag_1" [] k = 2 -> "lag_2"
                      [] k = 3 -> "lag_3" [] OTHER -> "lag_7"]
                  = timeline(ret.arg.history, ret.value, Len(ret.arg.history) + i - k)

\* the payday factor applied at a point of the last forecast
PaydayFactorAt(point) ==
    payday_factor(data_tier(brain).variation_scale, point.date.day)

(* C24: at every step of a forecast the payday factor is within [1.0, 1.08] *)
(* on a target day of month >= 25 or <= 5, within [0.95, 1.0] on the days   *)
(* 12..18 and 1.0 on every other day, in every data-quality tier.           *)
C24_PaydayFactor ==
    Forecast =>
        \A i \in 1..Len(ret.value) :
            LET day == ret.value[i].date.day
                f == PaydayFactorAt(ret.value[i])
            IN  IF day >= 25 \/ day <= 5 THEN S <= f /\ f <= 1080
                ELSE IF day >= 12 /\ day <= 18 THEN 950 <= f /\ f <= S
                ELSE f = S

\* the tier named for a number of days of history
TierOfDays(data_days) ==
    IF data_days >= 60 THEN "HIGH"
    ELSE IF data_days >= 30 THEN "MEDIUM_HIGH"
    ELSE IF data_days >= 14 THEN "MEDIUM"
    ELSE IF data_days >= 7 THEN "LOW_MEDIUM"
    ELSE "LOW"

(* C25: predict_next_days selects the data-quality tier from the number of *)
(* days of history the state was trained on: HIGH for >= 60 days,          *)
(* MEDIUM_HIGH for >= 30, MEDIUM for >= 14, LOW_MEDIUM for >= 7, LOW below. *)
C25_TierFromHistoryDays ==
    (ret.op = "predict_kept" /\ ret.raised = NoError) =>
        data_tier(brain).name = TierOfDays(Len(ret.arg.history))

\* the state the request's own train call produced
OwnTrained ==
    train(HybridBrain("P1"), AdapterHistories[race_history_of("t1")], "P1", ConcFit).state

(* C26: when a request calls adapter train(data, P) and then               *)
(* save_model(P, path), the artifact written is the state produced by the  *)
(* request's own train call, under every interleaving with another thread  *)
(* that calls train(P) or load_model(P) in between.                        *)
C26_TrainThenSave ==
    (pc["t1"] = "done" /\ local["t1"].value) =>
        /\ artifact.exists /\ artifact.path = path_of("P1")
        /\ artifact.obj = OwnTrained

(* C27: the forecast request that follows a successful POST /api/ml/train   *)
(* of P1 (state trained, artifact saved under models/) answers with the     *)
(* forecast of the newly trained state, whatever the cache holds under      *)
(* forecast_P1 and whatever file lies under training/models_output.         *)
C27_NoStaleForecast ==
    (/\ ret.op = "get_forecast"
     /\ ret.arg.after_saved
     /\ ret.value.status = 200) =>
        ret.value.predictions =
            predict_next_days(training_state["P1"].brain, ret.arg.days, Now).value

\* the same with no file under training/models_output: the cache alone
C27_NoStaleCache ==
    (/\ ret.op = "get_forecast"
     /\ ret.arg.after_saved
     /\ ~output_artifact.exists
     /\ ret.value.status = 200) =>
        ret.value.predictions =
            predict_next_days(training_state["P1"].brain, ret.arg.days, Now).value

\* the same with an empty cache at the request: the directory order alone
C27_NoStaleDirectory ==
    (/\ ret.op = "get_forecast"
     /\ ret.arg.after_saved
     /\ model_cache.hits = 0
     /\ ret.value.status = 200) =>
        ret.value.predictions =
            predict_next_days(training_state["P1"].brain, ret.arg.days, Now).value

\* the keys other than the one set that a set call removed
SetRemoved == (cached_keys(ret.arg.before) \ cached_keys(model_cache)) \ {ret.arg.key}

(* C28: set(k, v) removes another entry only when k was not cached and the  *)
(* cache held max_size entries; the entry removed is then the least         *)
(* recently used one; and after set(k, v) the key k is the most recently    *)
(* used entry, the last one the eviction of a later set reaches.            *)
C28_LeastRecentlyUsed ==
    ret.op = "cache_set" =>
        /\ SetRemoved # {} =>
              /\ ret.arg.key \notin cached_keys(ret.arg.before)
              /\ Len(ret.arg.before.entries) = max_size
              /\ SetRemoved = {ret.arg.used[1]}
        /\ model_cache.entries[Len(model_cache.entries)].key = ret.arg.key

\* a set of a key that is cached takes no other entry out of a full cache
C28_SetOfCachedKeyKeepsOthers ==
    (ret.op = "cache_set" /\ ret.arg.key \in cached_keys(ret.arg.before)) =>
        SetRemoved = {}

\* after set(k, v) the key k is the last entry in eviction order
C28_SetMakesMostRecent ==
    ret.op = "cache_set" =>
        model_cache.entries[Len(model_cache.entries)].key = ret.arg.key

\* a set of a new key into a full cache removes the least recently used key
C28_EvictsLeastRecent ==
    (/\ ret.op = "cache_set"
     /\ ret.arg.key \notin cached_keys(ret.arg.before)
     /\ Len(ret.arg.before.entries) = max_size) =>
        SetRemoved = {ret.arg.used[1]}

\* floor(n * frac(n)) as the claim states it: frac by the upper ends of the ranges
FloorOfFraction(n) ==
    IF n <= 80 THEN (n * 28) \div 100
    ELSE IF n <= 150 THEN (n * 25) \div 100
    ELSE IF n <= 300 THEN (n * 22) \div 100
    ELSE (n * 20) \div 100

\* the row labels of a part of the frame
Labels(X) == {X[i].index : i \in 1..Len(X)}

(* C29: for a sorted frame of n >= 14 rows the validation size is           *)
(* max(5, min(floor(n * frac(n)), 80)), lies in 5..80 and is below n; the   *)
(* validation set is the last n_val rows, the training set the first        *)
(* n - n_val rows and not empty; the two share no row, and every training   *)
(* row stands before every validation row in the frame and is dated no      *)
(* later.                                                                   *)
C29_ChronologicalSplit ==
    ret.op = "split" =>
        LET X == ret.arg
            n == Len(ret.arg)
            k == ret.value.n_val
            X_train == ret.value.X_train
            X_val == ret.value.X_val
            floored == IF FloorOfFraction(n) < 80 THEN FloorOfFraction(n) ELSE 80
        IN  /\ k = IF floored > 5 THEN floored ELSE 5
            /\ 5 <= k /\ k <= 80 /\ k < n
            /\ X_val = SubSeq(X, n - k + 1, n)
            /\ X_train = SubSeq(X, 1, n - k)
            /\ X_train # << >>
            /\ Labels(X_train) \cap Labels(X_val) = {}
            /\ \A i \in 1..Len(X_train), j \in 1..Len(X_val) :
                  /\ X_train[i].index < X_val[j].index
                  /\ X_train[i].date <= X_val[j].date

\* the largest frame, two rows a date: the fraction gives 82 rows, 80 are held out
C29_Witness ==
    /\ ret.op = "split"
    /\ Len(ret.arg) = MaxSplitRows
    /\ FloorOfFraction(Len(ret.arg)) > 80
    /\ ret.value.n_val = 80
    /\ Len(ret.value.X_train) = MaxSplitRows - 80
    /\ ret.arg[1].date = ret.arg[2].date

(* C30: the first m points of a forecast of n days are the forecast of m    *)
(* days of the same state, for every 1 <= m <= n <= 30.                     *)
C30_HorizonIndependence ==
    Forecast =>
        \A m \in DaysInputs :
            (1 <= m /\ m <= ret.arg) =>
                SubSeq(ret.value, 1, m) = predict_next_days(brain, m, Now).value

====
